---- MODULE Spec2Model ----
(***************************************************************************)
(* RaveDigest: the stream-based pipeline core.                             *)
(*                                                                         *)
(* Three workers (Analyzer, Composer, Publisher) consume one Redis stream  *)
(* each through a consumer group, a Scheduler drives the daily run over    *)
(* HTTP, and two status endpoints expose the drain predicate.              *)
(*                                                                         *)
(* A message id is the position of the entry in its stream.  Every call   *)
(* that leaves the process (bus, store, LLM, HTTP) has an outcome drawn    *)
(* from what the wrapper around it lets through: a value, or an exception. *)
(***************************************************************************)
EXTENDS Integers, Sequences, FiniteSets, TLC

\* ------------------------------------------------------------------ bounds
MaxMsgs == 2        \* entries a producer outside the worker appends to a stream
NumArticles == 2    \* distinct article ids
NumDigests == 2     \* distinct digest ids
MaxInv == 3         \* handler invocations followed in one behaviour
MaxDays == 2        \* daily runs followed in one behaviour
NumUrls == 2        \* distinct article URLs in the feeds
MaxEntries == 3     \* feed entries the Collector processes in one behaviour
MaxRuns == 2        \* Collector runs followed in one behaviour
MaxPipeInv == 4     \* handler invocations followed along Composer -> Publisher
MaxAppends == 2001  \* appends of one producer followed in one behaviour
MaxReads == 3       \* group-reads of one worker followed in one behaviour
MaxReqs == 3        \* HTTP requests sent to one process in one behaviour
MaxOps == 4         \* turns of one worker loop followed in one behaviour
MaxThreshold == 3   \* largest failure_threshold of a circuit breaker
MaxTimeout == 2     \* largest recovery_timeout of a circuit breaker, in clock ticks
MaxTime == 5        \* clock ticks followed in one behaviour
MaxCalls == 6       \* calls through one circuit breaker followed in one behaviour
MaxRetriesArg == 4  \* largest max_retries argument given to retry / async_retry
MaxFeedLen == 6     \* entries of one parsed feed
MaxXadds == 3       \* stream appends whose serialisation is followed

\* ------------------------------------------------------- program constants
ReadCountAnalyzer == 10     \* xreadgroup(count=10)
ReadCountNotion == 10       \* xreadgroup(count=10)
ReadCountDefault == 1       \* RedisClient.xreadgroup(count: int = 1)
ReclaimCount == 10          \* xpending_range(stream, group, '-', '+', 10)
PostRetries == 3            \* retry_with_backoff(retries=3)
TriggerAttempts == 3        \* stop_after_attempt(3)
STATUS_MAX_ATTEMPTS == 35   \* SCHEDULER_STATUS_MAX_ATTEMPTS
FetchMaxRetries == 3        \* @async_retry(max_retries=3) on fetch_and_extract
SummarizeMaxRetries == 3    \* @async_retry(max_retries=3) on safe_summarize
ServiceMaxRetries == 3      \* settings.service.max_retries, default

W == {"analyzer", "composer", "notion"}
\* who invokes a handler: a worker loop, or the POST /compose route
Callers == W \cup {"http"}
Streams == {"raw_articles", "enriched_articles", "digest_stream", "digests"}
ArticleIds == 1..NumArticles
DigestIds == 1..NumDigests
Urls == 1..NumUrls

\* A column value carries the invocation that produced it (by = 0: written
\* by the Collector or the column default), so that two LLM answers are
\* never confused.
Null == [set |-> FALSE, by |-> 0]
NoRow ==
    [present |-> FALSE, summary |-> Null, relevance_score |-> Null,
     developer_focus |-> [val |-> FALSE, by |-> 0]]

\* the stream a worker binds to, and the stream its handler appends to
StreamOf(w) ==
    CASE w = "analyzer" -> "raw_articles"
      [] w = "composer" -> "enriched_articles"
      [] w = "notion" -> "digest_stream"

\* count= of the worker's xreadgroup call
ReadCount(w) ==
    CASE w = "analyzer" -> ReadCountAnalyzer
      [] w = "composer" -> ReadCountDefault
      [] w = "notion" -> ReadCountNotion

VARIABLES
    stream,      \* stream name -> sequence of payloads (the id is the index)
    skeys,       \* the stream keys that exist on the bus
    grp,         \* worker -> its consumer group: exists, last-delivered-id, pending
    wk,          \* worker -> position of the worker coroutine
    cur,         \* worker -> the handler invocation in progress (or the last one)
    inv,         \* handler invocations started so far
    articles,    \* rave_articles: article id -> row
    lastOk,      \* article id -> latest invocation that returned normally
    lastCommit,  \* article id -> latest invocation whose upsert committed
    digests,     \* digests table: the digest ids that have a row
    marker,      \* digest ids whose digest_published:<id> key is set
    expired,     \* digest ids whose marker has expired at least once
    pages,       \* digest id -> pages created in the knowledge base
    sched,       \* the Scheduler's daily job
    resp,        \* the last answer of a status endpoint
    seen_urls,   \* the bus-hosted set seen_urls
    url_rows,    \* url -> rows of rave_articles with that url
    raw_by_url,  \* url -> raw_articles entries the Collector appended for it
    coll,        \* the Collector's run
    trim,        \* the length of each stream as its producer's appends leave it
    evloop,      \* the event loop of one component's process
    health,      \* one process's dependencies and its last health answer
    life,        \* one process from serving to exit: its worker task and bus client
    cb,          \* one CircuitBreaker, the clock and the last call made through it
    rt,          \* one call of a function wrapped by retry / async_retry
    feed,       \* one feed handed to parse_feed and the list it returned
    ser         \* the stream append in progress: the dump handed to xadd and its encoded fields

vars == <<stream, skeys, grp, wk, cur, inv, articles, lastOk, lastCommit,
          digests, marker, expired, pages, sched, resp,
          seen_urls, url_rows, raw_by_url, coll, trim, evloop, health,
          life, cb, rt, feed, ser>>

busVars == <<stream, skeys, grp>>
storeVars == <<articles, lastOk, lastCommit, digests>>
kbVars == <<marker, expired, pages>>
collVars == <<seen_urls, url_rows, raw_by_url, coll>>
sideVars == <<trim, evloop, health, life, cb, rt, feed, ser>>

\* ------------------------------------------------------------------ helpers
Min(S) == CHOOSE x \in S : \A y \in S : x <= y

RECURSIVE SortedPrefix(_, _)
\* the n smallest elements of S, in increasing order
SortedPrefix(S, n) ==
    IF S = {} \/ n = 0 THEN <<>>
    ELSE <<Min(S)>> \o SortedPrefix(S \ {Min(S)}, n - 1)

Range(s) == {s[i] : i \in DOMAIN s}

\* ids lo..hi as a sequence
RECURSIVE IdSeq(_, _)
IdSeq(lo, hi) == IF lo > hi THEN <<>> ELSE <<lo>> \o IdSeq(lo + 1, hi)

\* ---------------------------------------------------------- initial state
IdleCur ==
    [inv |-> 0, msg |-> 0, ctx |-> "none", step |-> "done", failed |-> "none",
     focus |-> FALSE, committed |-> FALSE, appended |-> FALSE,
     posted |-> FALSE, marked |-> FALSE, attempt |-> 0, inner |-> 0, calls |-> 0,
     last |-> "none", hadMarker |-> FALSE, found |-> "unknown", md |-> "none",
     ackIssued |-> FALSE, did |-> 0,
     url |-> [prefix |-> "none", id |-> 0], source |-> "none",
     base |-> 0, ackOk |-> FALSE, lookup |-> "none"]

DownWorker ==
    [pc |-> "down", ctx |-> "none", batch |-> <<>>, lastBatch |-> {}, handled |-> {},
     startPending |-> {}, rehandled |-> {}, raisedInLoop |-> FALSE]

\* a worker whose process is not part of the deployment under study
OffWorker == [DownWorker EXCEPT !.pc = "off"]

\* only worker w0 is deployed; the producers of its stream are arbitrary
Deployed(w0) == [w \in W |-> IF w = w0 THEN DownWorker ELSE OffWorker]

IdleSched ==
    [step |-> "idle", attempt |-> 0, day |-> 0, trace |-> <<>>,
     collectorOk |-> FALSE, analyzerIdle |-> FALSE, composeOk |-> FALSE,
     failedAt |-> "none", loopAlive |-> TRUE, prevFailed |-> FALSE, got |-> "none"]

IdleColl ==
    [pc |-> "idle", url |-> 0, run |-> 0, n |-> 0, attempt |-> 0,
     total_collected |-> 0, total_skipped |-> 0, total_errors |-> 0,
     hitUnique |-> FALSE, published |-> FALSE, counted |-> FALSE]

NoResp == [endpoint |-> "none", stream |-> "none", code |-> 0, is_idle |-> FALSE,
           busOk |-> FALSE, streamExisted |-> FALSE, groupExisted |-> FALSE]

\* a row as the Collector inserts it: the feed's summary, no enrichment
CollectorRow ==
    [present |-> TRUE, summary |-> [set |-> TRUE, by |-> 0],
     relevance_score |-> Null, developer_focus |-> [val |-> FALSE, by |-> 0]]

\* no append counted yet
IdleTrim == [on |-> "none", len |-> [s \in {"raw_articles", "enriched_articles", "digest_stream"} |-> 0]]

\* no process started
IdleLoop ==
    [comp |-> "none", running |-> "none", wpc |-> "none", reads |-> 0,
     reqs |-> 0, answered |-> 0]

Dependencies == {"database", "redis", "openai", "notion", "rss_feed_0"}

\* no health endpoint called
IdleHealth ==
    [comp |-> "none", up |-> [d \in Dependencies |-> TRUE], endpoint |-> "none",
     status |-> "none"]

\* no process started
IdleLife ==
    [comp |-> "none", phase |-> "none", task |-> "none", client |-> "none",
     closed |-> FALSE, ops |-> 0, late |-> 0, served |-> 0]

NoCall ==
    [made |-> FALSE, pre |-> "none", elapsed |-> FALSE, invoked |-> FALSE,
     via |-> "none", outcome |-> "none", result |-> "none"]

\* no breaker constructed
IdleBreaker ==
    [failure_threshold |-> 0, recovery_timeout |-> 0, failure_count |-> 0,
     last_failure_time |-> [set |-> FALSE, t |-> 0], state |-> "none",
     now |-> 0, calls |-> 0, streak |-> 0, last |-> NoCall]

\* no wrapped function called
IdleRetry ==
    [wrapper |-> "none", arg |-> 0, attempt |-> 0, calls |-> 0, oks |-> 0,
     fails |-> 0, fatals |-> 0, done |-> "none"]

\* no feed parsed
IdleFeed == [entries |-> <<>>, parsed |-> FALSE, out |-> <<>>]

\* no stream append in progress
IdleSer == [n |-> 0, model |-> "none", fields |-> <<>>, i |-> 0, encoded |-> <<>>]

SideIdle ==
    /\ trim = IdleTrim
    /\ evloop = IdleLoop
    /\ health = IdleHealth
    /\ life = IdleLife
    /\ cb = IdleBreaker
    /\ rt = IdleRetry
    /\ feed = IdleFeed
    /\ ser = IdleSer

InitCore ==
    /\ stream = [s \in Streams |-> <<>>]
    /\ skeys = {}
    /\ grp = [w \in W |-> [exists |-> FALSE, last |-> 0, pending |-> {}]]
    /\ cur = [k \in Callers |-> IdleCur]
    /\ inv = 0
    /\ lastOk = [a \in ArticleIds |-> articles[a].summary.by]
    /\ lastCommit = [a \in ArticleIds |-> articles[a].summary.by]
    /\ marker = {}
    /\ expired = {}
    /\ pages = [d \in DigestIds |-> 0]
    /\ sched = IdleSched
    /\ resp = NoResp
    /\ seen_urls = {}
    /\ url_rows = [u \in Urls |-> 0]
    /\ raw_by_url = [u \in Urls |-> 0]
    /\ coll = IdleColl

InitBase == InitCore /\ SideIdle

\* ------------------------------------------------------------ the bus
\* XADD by a producer outside the worker under study: any payload the
\* stream's schema admits, well-formed or not
Payloads(s) ==
    IF s = "digest_stream" THEN [id : DigestIds, valid : BOOLEAN]
    ELSE [id : ArticleIds, valid : BOOLEAN]

Produce(s) ==
    /\ \E w \in W : StreamOf(w) = s /\ wk[w].pc # "off"
    /\ Len(stream[s]) < MaxMsgs
    /\ \E p \in Payloads(s) :
         /\ stream' = [stream EXCEPT ![s] = Append(@, p)]
         /\ skeys' = skeys \cup {s}
    /\ UNCHANGED <<grp, wk, cur, inv, storeVars, kbVars, sched, resp, collVars, sideVars>>

\* RedisClient.xgroup_create: creates the group at cursor 0 (mkstream) when
\* the bus answers; BUSYGROUP and every other error end in a return value
xgroup_create(w, busOk) ==
    IF busOk /\ ~grp[w].exists
    THEN [grp EXCEPT ![w] = [exists |-> TRUE, last |-> 0, pending |-> {}]]
    ELSE grp

\* RedisClient.xpending_range: the first `count` pending ids, [] on any error
xpending_range(g, count, busOk) ==
    IF busOk /\ g.exists THEN SortedPrefix(g.pending, count) ELSE <<>>

\* RedisClient.xreadgroup with ">": the next `count` undelivered ids,
\* [] when there are none or on any error
xreadgroup(w, count, busOk) ==
    LET n == Len(stream[StreamOf(w)])
        hi == IF grp[w].last + count < n THEN grp[w].last + count ELSE n
    IN IF busOk /\ grp[w].exists THEN IdSeq(grp[w].last + 1, hi) ELSE <<>>

\* RedisClient.xack: removes the id from the pending set when the bus
\* answers; an error is logged and 0 is returned
xack(g, m, busOk) ==
    IF busOk /\ g.exists THEN [g EXCEPT !.pending = @ \ {m}] ELSE g

\* parameter names of RedisClient.xrange
xrange_params == {"stream", "min_id", "max_id", "count"}

\* keyword arguments of the xrange call in the Analyzer's reclaim loop
reclaim_xrange_kwargs == {"min", "max"}

\* a call binds when each keyword names a parameter (TypeError otherwise)
CallBinds(kwargs, params) == kwargs \subseteq params

\* ------------------------------------------------------ the worker loop
Start(w) ==
    /\ wk[w].pc = "down"
    /\ wk' = [wk EXCEPT ![w] = [DownWorker EXCEPT !.pc = "init"]]
    /\ UNCHANGED <<busVars, cur, inv, storeVars, kbVars, sched, resp, collVars, sideVars>>

\* the process a caller runs in: /compose is served by the Composer's app
ProcessOf(k) == IF k = "http" THEN "composer" ELSE k

\* the process is killed: the coroutine and its locals are gone, the bus
\* and the store keep what was written
Crash(w) ==
    /\ wk[w].pc \notin {"off", "down"}
    /\ wk' = [wk EXCEPT ![w] = DownWorker]
    /\ cur' = [k \in Callers |->
                 IF ProcessOf(k) # w \/ cur[k].step = "done" THEN cur[k]
                 ELSE [cur[k] EXCEPT !.step = "done", !.failed = "killed"]]
    /\ UNCHANGED <<busVars, inv, storeVars, kbVars, sched, resp, collVars, sideVars>>

\* a loop without the per-message try/except: the exception ends the coroutine
on_handler_error_escapes(w, ctx) == "dead"

\* where the worker goes when the handler raises
on_handler_error(w, ctx) ==
    IF ctx = "loop" THEN "batch"      \* caught per message, logged
    ELSE "dead"                       \* reclaim: re-raised out of the coroutine

\* where the worker goes when the handler returns
on_handler_return(w, ctx) == "batch"

\* steady state: one group-read
Read(w) ==
    /\ wk[w].pc = "loop"
    /\ \E busOk \in BOOLEAN :
         LET ids == xreadgroup(w, ReadCount(w), busOk)
         IN /\ grp' = [grp EXCEPT ![w] =
                         [@ EXCEPT !.pending = @ \cup Range(ids),
                                   !.last = IF ids = <<>> THEN @ ELSE ids[Len(ids)]]]
            /\ wk' = [wk EXCEPT ![w] =
                         IF ids = <<>> THEN @
                         ELSE [@ EXCEPT !.pc = "batch", !.ctx = "loop", !.batch = ids,
                                        !.lastBatch = Range(ids), !.handled = {},
                                        !.raisedInLoop = FALSE]]
    /\ UNCHANGED <<stream, skeys, cur, inv, storeVars, kbVars, sched, resp, collVars, sideVars>>

\* the batch is exhausted: back to the group-read
BatchDone(w) ==
    /\ wk[w].pc = "batch"
    /\ wk[w].batch = <<>>
    /\ wk' = [wk EXCEPT ![w] = [@ EXCEPT !.pc = "loop", !.ctx = "loop"]]
    /\ UNCHANGED <<busVars, cur, inv, storeVars, kbVars, sched, resp, collVars, sideVars>>

\* the invocation record of a handler call on message m
NewCur(w, m, ctx, first) ==
    [IdleCur EXCEPT !.inv = inv + 1, !.msg = m, !.ctx = ctx, !.step = first,
                    !.base = IF w = "analyzer"
                               THEN Len(stream["enriched_articles"]) ELSE 0]

\* the handler, its locals being c, raised at `stage`
RaiseWith(w, c, stage) ==
    /\ cur' = [cur EXCEPT ![w] = [c EXCEPT !.failed = stage, !.step = "done"]]
    /\ wk' = [wk EXCEPT ![w] =
                [@ EXCEPT !.pc = on_handler_error(w, cur[w].ctx),
                          !.raisedInLoop = @ \/ cur[w].ctx = "loop"]]

\* the handler raised at `stage`
Raise(w, stage) == RaiseWith(w, cur[w], stage)

\* the handler returned
Return(w) ==
    /\ cur' = [cur EXCEPT ![w] = [@ EXCEPT !.step = "done"]]
    /\ wk' = [wk EXCEPT ![w].pc = on_handler_return(w, cur[w].ctx)]

\* first step of the worker's handler
FirstStep(w) ==
    CASE w = "analyzer" -> "fetch"
      [] w = "composer" -> "compose"
      [] w = "notion" -> "begin"

\* the next message of the batch goes to the handler.  In the reclaim loop
\* the payload is first re-fetched by id (xrange returns [] on a bus error
\* and the entry is then passed over).
TakeUpTo(w, cap) ==
    /\ wk[w].pc = "batch"
    /\ wk[w].batch # <<>>
    /\ inv < cap
    /\ LET m == Head(wk[w].batch)
       IN \E busOk \in BOOLEAN :
            IF wk[w].ctx = "reclaim" /\ ~busOk
            THEN /\ wk' = [wk EXCEPT ![w].batch = Tail(@)]
                 /\ UNCHANGED <<cur, inv>>
            ELSE /\ busOk
                 /\ wk' = [wk EXCEPT ![w] =
                            [@ EXCEPT !.pc = "handler", !.batch = Tail(@),
                                      !.handled = IF wk[w].ctx = "loop"
                                                  THEN @ \cup {m} ELSE @,
                                      !.rehandled = IF wk[w].ctx = "reclaim"
                                                    THEN @ \cup {m} ELSE @]]
                 /\ cur' = [cur EXCEPT ![w] = NewCur(w, m, wk[w].ctx, FirstStep(w))]
                 /\ inv' = inv + 1
    /\ UNCHANGED <<busVars, storeVars, kbVars, sched, resp, collVars, sideVars>>

Take(w) == TakeUpTo(w, MaxInv)

\* --------------------------------------------------------- the Analyzer
\* process_raw_stream up to the loop: ensure the group, enumerate the
\* pending entries, re-fetch each by id and hand it to the handler
AnInit ==
    /\ wk["analyzer"].pc = "init"
    /\ \E ok1, ok2 \in BOOLEAN :
         LET g1 == xgroup_create("analyzer", ok1)
             pend == xpending_range(g1["analyzer"], ReclaimCount, ok2)
         IN /\ grp' = g1
            /\ skeys' = IF ok1 THEN skeys \cup {"raw_articles"} ELSE skeys
            /\ wk' = [wk EXCEPT !["analyzer"] =
                        [@ EXCEPT
                           !.startPending =
                               Range(SortedPrefix(g1["analyzer"].pending, ReclaimCount)),
                           !.pc = IF pend = <<>> THEN "loop"
                                  ELSE IF CallBinds(reclaim_xrange_kwargs, xrange_params)
                                       THEN "batch" ELSE "dead",
                           !.ctx = IF pend = <<>> THEN "loop" ELSE "reclaim",
                           !.batch = IF pend # <<>>
                                        /\ CallBinds(reclaim_xrange_kwargs, xrange_params)
                                     THEN pend ELSE <<>>]]
    /\ UNCHANGED <<stream, cur, inv, storeVars, kbVars, sched, resp, collVars, sideVars>>

\* handle_message with the ack moved up, ahead of the upsert and the append
handle_message_order_ack_first ==
    <<"fetch", "summarize", "xack", "save", "xadd", "return">>

\* handle_message without the append to enriched_articles
handle_message_order_no_append ==
    <<"fetch", "summarize", "save", "xack", "return">>

\* the statements of handle_message that have an effect, in program order
handle_message_order == <<"fetch", "summarize", "save", "xadd", "xack", "return">>

\* the step that follows `step` in `order`
StepAfter(order, step) ==
    LET i == CHOOSE j \in DOMAIN order : order[j] = step
    IN order[i + 1]

\* save_enriched_to_db whose update branch assigns the summary only
save_enriched_summary_only(row, e) ==
    IF row.present
    THEN [row EXCEPT !.summary = e.summary]
    ELSE [present |-> TRUE, summary |-> e.summary,
          relevance_score |-> e.relevance_score,
          developer_focus |-> e.developer_focus]

\* save_enriched_to_db whose update branch leaves the score out of the row
save_enriched_drops_score(row, e) ==
    IF row.present
    THEN [row EXCEPT !.summary = e.summary,
                     !.relevance_score = Null,
                     !.developer_focus = e.developer_focus]
    ELSE [present |-> TRUE, summary |-> e.summary,
          relevance_score |-> e.relevance_score,
          developer_focus |-> e.developer_focus]

\* the row after the upsert committed: an existing row gets the three
\* enrichment fields overwritten, a missing one is inserted whole
save_enriched_to_db(row, e) ==
    IF row.present
    THEN [row EXCEPT !.summary = e.summary,
                     !.relevance_score = e.relevance_score,
                     !.developer_focus = e.developer_focus]
    ELSE [present |-> TRUE, summary |-> e.summary,
          relevance_score |-> e.relevance_score,
          developer_focus |-> e.developer_focus]

\* the EnrichedArticle an invocation builds: summary and score are the
\* ones this invocation's LLM call returned, named by the invocation
EnrichedOf(c) ==
    [summary |-> [set |-> TRUE, by |-> c.inv],
     relevance_score |-> [set |-> TRUE, by |-> c.inv],
     developer_focus |-> [val |-> c.focus, by |-> c.inv]]

AnArticle == stream["raw_articles"][cur["analyzer"].msg].id

\* the wrapper of shared.utils.retry (retry and async_retry), on the outcome
\* of the call made in iteration `attempt` of range(max_retries + 1)
retry_one_attempt_less(outcome, attempt, max_retries) ==
    IF outcome = "ok" THEN "return"
    ELSE IF outcome = "nonretryable" THEN "reraise"
    ELSE IF attempt + 1 >= max_retries THEN "raise"
    ELSE "again"

retry(outcome, attempt, max_retries) ==
    IF outcome = "ok" THEN "return"
    ELSE IF outcome = "nonretryable" THEN "reraise"     \* second except clause
    ELSE IF attempt = max_retries THEN "raise"      \* RetryError
    ELSE "again"

\* RawArticle(**payload), then one GET of fetch_and_extract under its
\* async_retry wrapper
AnFetch ==
    LET c == cur["analyzer"]
        p == stream["raw_articles"][c.msg]
    IN /\ wk["analyzer"].pc = "handler"
       /\ c.step = "fetch"
       /\ IF ~p.valid
          THEN Raise("analyzer", "validation")
          ELSE \E o \in {"ok", "error"} :
                 LET r == retry(o, c.attempt, FetchMaxRetries)
                 IN CASE r = "return" ->
                           /\ cur' = [cur EXCEPT !["analyzer"] =
                                        [c EXCEPT !.attempt = 0, !.calls = 0,
                                                  !.step = StepAfter(handle_message_order,
                                                                     c.step)]]
                           /\ UNCHANGED wk
                      [] r = "again" ->
                           /\ cur' = [cur EXCEPT !["analyzer"] =
                                        [c EXCEPT !.attempt = @ + 1, !.calls = @ + 1]]
                           /\ UNCHANGED wk
                      [] OTHER ->
                           RaiseWith("analyzer", [c EXCEPT !.calls = @ + 1], "fetch")
       /\ UNCHANGED <<busVars, inv, storeVars, kbVars, sched, resp, collVars, sideVars>>

\* one chat.completions.create of summarize_articles, under its own retry
\* wrapper (settings.service.max_retries) inside the async_retry wrapper of
\* safe_summarize; then mark_developer_focus and EnrichedArticle(...)
AnSummarize ==
    LET c == cur["analyzer"]
    IN /\ wk["analyzer"].pc = "handler"
       /\ c.step = "summarize"
       /\ \E o \in {"ok", "error"} :
            LET ri == retry(o, c.inner, ServiceMaxRetries)
                ro == IF ri = "raise"
                      THEN retry("error", c.attempt, SummarizeMaxRetries)
                      ELSE ri
            IN CASE ro = "return" ->
                      /\ \E f \in BOOLEAN :
                           cur' = [cur EXCEPT !["analyzer"] =
                                     [c EXCEPT !.focus = f, !.attempt = 0, !.inner = 0,
                                               !.calls = 0,
                                               !.step = StepAfter(handle_message_order,
                                                                  c.step)]]
                      /\ UNCHANGED wk
                 [] ro = "again" ->
                      /\ cur' = [cur EXCEPT !["analyzer"] =
                                   [c EXCEPT !.calls = @ + 1,
                                             !.inner = IF ri = "raise" THEN 0 ELSE @ + 1,
                                             !.attempt = IF ri = "raise" THEN @ + 1 ELSE @]]
                      /\ UNCHANGED wk
                 [] OTHER ->
                      RaiseWith("analyzer", [c EXCEPT !.calls = @ + 1], "summarize")
       /\ UNCHANGED <<busVars, inv, storeVars, kbVars, sched, resp, collVars, sideVars>>

\* save_enriched_to_db: commit, or rollback and raise once the retries are spent
AnSave ==
    LET c == cur["analyzer"]
    IN /\ wk["analyzer"].pc = "handler"
       /\ c.step = "save"
       /\ \E dbOk \in BOOLEAN :
            IF dbOk
            THEN /\ articles' = [articles EXCEPT ![AnArticle] =
                                    save_enriched_to_db(@, EnrichedOf(c))]
                 /\ lastCommit' = [lastCommit EXCEPT ![AnArticle] = c.inv]
                 /\ cur' = [cur EXCEPT !["analyzer"] =
                              [c EXCEPT !.committed = TRUE,
                                        !.step = StepAfter(handle_message_order, c.step)]]
                 /\ UNCHANGED wk
            ELSE /\ Raise("analyzer", "upsert")
                 /\ UNCHANGED <<articles, lastCommit>>
       /\ UNCHANGED <<busVars, inv, lastOk, digests, kbVars, sched, resp, collVars, sideVars>>

\* redis_client.xadd("enriched_articles", ...): returns the id or raises
AnXadd ==
    LET c == cur["analyzer"]
    IN /\ wk["analyzer"].pc = "handler"
       /\ c.step = "xadd"
       /\ \E busOk \in BOOLEAN :
            IF busOk
            THEN /\ stream' = [stream EXCEPT !["enriched_articles"] =
                                  Append(@, [id |-> AnArticle, valid |-> TRUE])]
                 /\ skeys' = skeys \cup {"enriched_articles"}
                 /\ cur' = [cur EXCEPT !["analyzer"] =
                              [c EXCEPT !.appended = TRUE,
                                        !.step = StepAfter(handle_message_order, c.step)]]
                 /\ UNCHANGED wk
            ELSE /\ Raise("analyzer", "append")
                 /\ UNCHANGED <<stream, skeys>>
       /\ UNCHANGED <<grp, inv, storeVars, kbVars, sched, resp, collVars, sideVars>>

\* redis_client.xack(stream, group, msg_id): never raises
AnXack ==
    LET c == cur["analyzer"]
    IN /\ wk["analyzer"].pc = "handler"
       /\ c.step = "xack"
       /\ \E busOk \in BOOLEAN :
            /\ grp' = [grp EXCEPT !["analyzer"] = xack(@, c.msg, busOk)]
            /\ cur' = [cur EXCEPT !["analyzer"] =
                         [c EXCEPT !.ackIssued = TRUE,
                                   !.ackOk = busOk,
                                   !.step = StepAfter(handle_message_order, c.step)]]
       /\ UNCHANGED <<stream, skeys, wk, inv, storeVars, kbVars, sched, resp, collVars, sideVars>>

\* handle_message returns normally
AnReturn ==
    LET c == cur["analyzer"]
    IN /\ wk["analyzer"].pc = "handler"
       /\ c.step = "return"
       /\ lastOk' = [lastOk EXCEPT ![AnArticle] = c.inv]
       /\ Return("analyzer")
       /\ UNCHANGED <<busVars, inv, articles, lastCommit, digests, kbVars, sched, resp, collVars, sideVars>>

\* ---------------------------------------------------- status endpoints
\* the methods class RedisClient defines
RedisClientMethods ==
    {"ping", "get", "set", "sadd", "sismember", "xadd", "xreadgroup",
     "xgroup_create", "xack", "xpending_range", "xrange", "close"}

\* get_analyzer_status / get_notion_worker_status on stream `s` and the
\* group of worker w.  A missing attribute raises AttributeError, the
\* HTTPException(404) is raised inside the try block: both reach the
\* trailing `except Exception` and leave as a 500.
status_endpoint(name, s, w, busOk) ==
    LET withCode == [endpoint |-> name, stream |-> s, code |-> 0, is_idle |-> FALSE,
                     busOk |-> busOk, streamExisted |-> s \in skeys,
                     groupExisted |-> grp[w].exists /\ s = StreamOf(w)]
    IN IF "xinfo_stream" \notin RedisClientMethods
         THEN [withCode EXCEPT !.code = 500]
       ELSE IF ~busOk
         THEN [withCode EXCEPT !.code = 500]
       ELSE IF s \notin skeys
         THEN [withCode EXCEPT !.code = 200, !.is_idle = TRUE]
       ELSE IF "xinfo_groups" \notin RedisClientMethods
         THEN [withCode EXCEPT !.code = 500]
       ELSE IF ~(grp[w].exists /\ s = StreamOf(w))
         THEN [withCode EXCEPT !.code = 500]
       ELSE [withCode EXCEPT !.code = 200,
                             !.is_idle = (Len(stream[s]) = grp[w].last
                                          /\ grp[w].pending = {})]

\* GET /analyzer/status
AnStatus ==
    /\ wk["analyzer"].pc # "off"
    /\ \E busOk \in BOOLEAN :
         resp' = status_endpoint("analyzer", "raw_articles", "analyzer", busOk)
    /\ UNCHANGED <<busVars, wk, cur, inv, storeVars, kbVars, sched, collVars, sideVars>>

InitAn ==
    /\ articles \in [ArticleIds -> {NoRow, CollectorRow}]
    /\ digests = {}
    /\ wk = Deployed("analyzer")
    /\ InitBase

NextAn ==
    \/ Produce("raw_articles")
    \/ Start("analyzer")
    \/ Crash("analyzer")
    \/ AnInit
    \/ Read("analyzer")
    \/ Take("analyzer")
    \/ BatchDone("analyzer")
    \/ AnFetch
    \/ AnSummarize
    \/ AnSave
    \/ AnXadd
    \/ AnXack
    \/ AnReturn
    \/ AnStatus

SpecAn == InitAn /\ [][NextAn]_vars

\* one run of the Analyzer process: started once, never killed
NextAnRun ==
    \/ Produce("raw_articles")
    \/ Start("analyzer")
    \/ AnInit
    \/ Read("analyzer")
    \/ Take("analyzer")
    \/ BatchDone("analyzer")
    \/ AnFetch
    \/ AnSummarize
    \/ AnSave
    \/ AnXadd
    \/ AnXack
    \/ AnReturn

\* the steps of the worker coroutine: the event loop runs the coroutine
\* whenever it can take a step, and every call it makes returns
AnWorkerStep ==
    \/ Start("analyzer")
    \/ AnInit
    \/ Read("analyzer")
    \/ Take("analyzer")
    \/ BatchDone("analyzer")
    \/ AnFetch
    \/ AnSummarize
    \/ AnSave
    \/ AnXadd
    \/ AnXack
    \/ AnReturn

\* the running worker is never stopped for ever; the producers of raw_articles
\* are free to stop
SpecAnRun == InitAn /\ [][NextAnRun]_vars /\ WF_vars(AnWorkerStep)

\* --------------------------------------------------------- the Composer
\* consume_enriched up to the loop: ensure the group, nothing else
CoInit ==
    /\ wk["composer"].pc = "init"
    /\ \E ok1 \in BOOLEAN :
         LET g1 == xgroup_create("composer", ok1)
         IN /\ grp' = g1
            /\ skeys' = IF ok1 THEN skeys \cup {"enriched_articles"} ELSE skeys
            /\ wk' = [wk EXCEPT !["composer"] =
                        [@ EXCEPT
                           !.startPending =
                               Range(SortedPrefix(g1["composer"].pending, ReclaimCount)),
                           !.pc = "loop", !.ctx = "loop"]]
    /\ UNCHANGED <<stream, cur, inv, storeVars, kbVars, sched, resp, collVars, sideVars>>

\* get_top_articles: the developer-focused rows
TopArticles == {a \in ArticleIds : articles[a].present /\ articles[a].developer_focus.val}

\* the identifier the store gives the next Digest row
FreshDigests == DigestIds \ digests

\* what render can hand to validate_markdown, by the first check it fails
Markdowns == {"ok", "empty", "nosections", "brackets", "nosummary"}

\* validate_markdown that only refuses blank content
validate_markdown_nonblank(md) == md # "empty"

\* validate_markdown: True, or ValueError
validate_markdown(md) == md = "ok"

\* generate_and_publish_digest that renders whatever the query returned
no_articles_never(top) == FALSE

\* `if not articles: return None`
no_articles(top) == top = {}

\* the body of a /compose answer
compose_response(code) == [NoResp EXCEPT !.endpoint = "compose", !.code = code]

\* generate_and_publish_digest raised in caller k: the worker's per-message
\* except logs it, the route turns it into HTTPException(500)
ComposeFail(k, c, stage) ==
    IF k = "http"
    THEN /\ cur' = [cur EXCEPT ![k] = [c EXCEPT !.failed = stage, !.step = "done"]]
         /\ resp' = compose_response(500)
         /\ UNCHANGED wk
    ELSE /\ RaiseWith(k, c, stage)
         /\ UNCHANGED resp

\* generate_and_publish_digest returned in caller k: None (code 204) or the
\* digest (code 200); the worker goes on to its xack
ComposeReturn(k, c, code) ==
    IF k = "http"
    THEN /\ cur' = [cur EXCEPT ![k] = [c EXCEPT !.step = "done"]]
         /\ resp' = compose_response(code)
         /\ UNCHANGED wk
    ELSE /\ cur' = [cur EXCEPT ![k] = [c EXCEPT !.step = "xack"]]
         /\ UNCHANGED <<wk, resp>>

\* the url generate_and_publish_digest passes to create_digest: "/digests/" and a
\* uuid4 drawn by the call itself
digest_url(u) == [prefix |-> "/digests/", id |-> u]

\* the source generate_and_publish_digest passes to create_digest
digest_source == "AI-Tech"

\* EnrichedArticle(**payload) in the worker, then generate_and_publish_digest
\* up to create_digest: query, empty check, render, validate_markdown,
\* insert and commit
\* the row's id is the column default (a uuid4 drawn at insert), the uuid in its
\* url is a second, independent draw
CoCompose(k) ==
    LET c == cur[k]
    IN /\ k = "composer" => wk[k].pc = "handler"
       /\ c.step = "compose"
       /\ \E qOk, rOk, iOk \in BOOLEAN, md \in Markdowns, u \in DigestIds :
            LET c1 == [c EXCEPT !.found = IF TopArticles = {} THEN "empty" ELSE "some"]
                c2 == [c1 EXCEPT !.md = md]
            IN IF k = "composer" /\ ~stream["enriched_articles"][c.msg].valid
                 THEN ComposeFail(k, c, "validation") /\ UNCHANGED digests
               ELSE IF ~qOk
                 THEN ComposeFail(k, c, "query") /\ UNCHANGED digests
               ELSE IF no_articles(TopArticles)
                 THEN ComposeReturn(k, c1, 204) /\ UNCHANGED digests
               ELSE IF ~rOk
                 THEN ComposeFail(k, c1, "render") /\ UNCHANGED digests
               ELSE IF ~validate_markdown(md)
                 THEN ComposeFail(k, c2, "markdown") /\ UNCHANGED digests
               ELSE IF ~iOk
                 THEN ComposeFail(k, c2, "insert") /\ UNCHANGED digests
               ELSE /\ FreshDigests # {}
                    /\ digests' = digests \cup {Min(FreshDigests)}
                    /\ cur' = [cur EXCEPT ![k] =
                                 [c2 EXCEPT !.did = Min(FreshDigests),
                                            !.url = digest_url(u),
                                            !.source = digest_source,
                                            !.committed = TRUE, !.step = "publish"]]
                    /\ UNCHANGED <<wk, resp>>
       /\ UNCHANGED <<busVars, inv, articles, lastOk, lastCommit, kbVars, sched, collVars, sideVars>>

\* publish_digest_ready: xadd to digest_stream, raises once the retries are spent
CoPublish(k) ==
    LET c == cur[k]
    IN /\ k = "composer" => wk[k].pc = "handler"
       /\ c.step = "publish"
       /\ \E busOk \in BOOLEAN :
            IF busOk
            THEN /\ stream' = [stream EXCEPT !["digest_stream"] =
                                  Append(@, [id |-> c.did, valid |-> TRUE])]
                 /\ skeys' = skeys \cup {"digest_stream"}
                 /\ ComposeReturn(k, [c EXCEPT !.appended = TRUE], 200)
            ELSE /\ ComposeFail(k, c, "append")
                 /\ UNCHANGED <<stream, skeys>>
       /\ UNCHANGED <<grp, inv, storeVars, kbVars, sched, collVars, sideVars>>

\* POST /compose arrives at the Composer's app
ComposeRequest ==
    /\ wk["composer"].pc \notin {"off", "down"}
    /\ cur["http"].step = "done"
    /\ inv < MaxInv
    /\ cur' = [cur EXCEPT !["http"] = NewCur("http", 0, "http", "compose")]
    /\ inv' = inv + 1
    /\ UNCHANGED <<busVars, wk, storeVars, kbVars, sched, resp, collVars, sideVars>>

\* redis_client.xack on either branch (digest made, or nothing to compose)
CoXack ==
    LET c == cur["composer"]
    IN /\ wk["composer"].pc = "handler"
       /\ c.step = "xack"
       /\ \E busOk \in BOOLEAN :
            grp' = [grp EXCEPT !["composer"] = xack(@, c.msg, busOk)]
       /\ cur' = [cur EXCEPT !["composer"] =
                    [c EXCEPT !.ackIssued = TRUE, !.step = "done"]]
       /\ wk' = [wk EXCEPT !["composer"].pc = on_handler_return("composer", c.ctx)]
       /\ UNCHANGED <<stream, skeys, inv, storeVars, kbVars, sched, resp, collVars, sideVars>>

\* a row the Analyzer enriched before the behaviour starts
PriorRow(f) ==
    save_enriched_to_db(CollectorRow, EnrichedOf([inv |-> 1, focus |-> f]))

InitCo ==
    /\ articles \in [ArticleIds -> {NoRow, CollectorRow, PriorRow(TRUE)}]
    /\ digests = {}
    /\ wk = Deployed("composer")
    /\ InitBase

NextCo ==
    \/ Produce("enriched_articles")
    \/ Start("composer")
    \/ Crash("composer")
    \/ CoInit
    \/ Read("composer")
    \/ Take("composer")
    \/ BatchDone("composer")
    \/ CoCompose("composer")
    \/ CoPublish("composer")
    \/ CoXack

SpecCo == InitCo /\ [][NextCo]_vars

\* the Composer's two entry points side by side, the worker loop and the
\* POST /compose route, in a process that stays up
NextCompose ==
    \/ Produce("enriched_articles")
    \/ Start("composer")
    \/ CoInit
    \/ Read("composer")
    \/ Take("composer")
    \/ BatchDone("composer")
    \/ CoCompose("composer")
    \/ CoPublish("composer")
    \/ CoXack
    \/ ComposeRequest
    \/ CoCompose("http")
    \/ CoPublish("http")

\* every article has its Collector row; the Analyzer has enriched some as
\* developer-focused
InitCompose ==
    /\ articles \in [ArticleIds -> {CollectorRow, PriorRow(TRUE)}]
    /\ digests = {}
    /\ wk = Deployed("composer")
    /\ InitBase

SpecCompose == InitCompose /\ [][NextCompose]_vars

\* -------------------------------------------------------- the Publisher
\* consume_digest_stream up to the loop: ensure the group, nothing else
NoInit ==
    /\ wk["notion"].pc = "init"
    /\ \E ok1 \in BOOLEAN :
         LET g1 == xgroup_create("notion", ok1)
         IN /\ grp' = g1
            /\ skeys' = IF ok1 THEN skeys \cup {"digest_stream"} ELSE skeys
            /\ wk' = [wk EXCEPT !["notion"] =
                        [@ EXCEPT
                           !.startPending =
                               Range(SortedPrefix(g1["notion"].pending, ReclaimCount)),
                           !.pc = "loop", !.ctx = "loop"]]
    /\ UNCHANGED <<stream, cur, inv, storeVars, kbVars, sched, resp, collVars, sideVars>>

\* RedisClient.get: the value, None on any error
marker_get(d, busOk) == busOk /\ d \in marker

\* RedisClient.set: stores the key when the bus answers, False otherwise
marker_set(d, busOk) == IF busOk THEN marker \cup {d} ELSE marker

\* DigestReady(**payload), the marker lookup and the load of the Digest row
NoBegin ==
    LET c == cur["notion"]
        p == stream["digest_stream"][c.msg]
    IN /\ wk["notion"].pc = "handler"
       /\ c.step = "begin"
       /\ IF ~p.valid
          THEN Raise("notion", "validation")
          ELSE \E busOk, dbOk \in BOOLEAN :
                 LET c1 == [c EXCEPT !.did = p.id, !.hadMarker = p.id \in marker,
                                     !.lookup = IF busOk THEN "ok" ELSE "failed"]
                 IN IF marker_get(p.id, busOk)
                    THEN /\ cur' = [cur EXCEPT !["notion"] = [c1 EXCEPT !.step = "xack"]]
                         /\ UNCHANGED wk
                    ELSE IF ~dbOk
                    THEN RaiseWith("notion", c1, "load")
                    ELSE /\ cur' = [cur EXCEPT !["notion"] =
                                      [c1 EXCEPT !.attempt = 1,
                                                 !.found = IF p.id \in digests
                                                           THEN "some" ELSE "empty",
                                                 !.step = IF p.id \in digests
                                                          THEN "post" ELSE "xack"]]
                         /\ UNCHANGED wk
       /\ UNCHANGED <<busVars, inv, storeVars, kbVars, sched, resp, collVars, sideVars>>

\* retry_with_backoff whose loop runs once more before it gives up
retry_with_backoff_one_more(outcome, k, retries) ==
    CASE outcome = "ok" -> "return"
      [] outcome = "transient" -> IF k = retries + 1 THEN "raise" ELSE "again"
      [] OTHER -> "raise"

\* what retry_with_backoff does with the outcome of attempt k of `retries`
retry_with_backoff(outcome, k, retries) ==
    CASE outcome = "ok" -> "return"
      [] outcome = "transient" -> IF k = retries THEN "raise" ELSE "again"
      [] OTHER -> "raise"

\* one call of post_page under retry_with_backoff
NoPost ==
    LET c == cur["notion"]
    IN /\ wk["notion"].pc = "handler"
       /\ c.step = "post"
       /\ \E o \in {"ok", "transient", "other"} :
            LET r == retry_with_backoff(o, c.attempt, PostRetries)
                c1 == [c EXCEPT !.calls = @ + 1, !.last = o]
            IN CASE r = "return" ->
                      /\ pages' = [pages EXCEPT ![c.did] = @ + 1]
                      /\ cur' = [cur EXCEPT !["notion"] =
                                   [c1 EXCEPT !.posted = TRUE, !.step = "mark"]]
                      /\ UNCHANGED wk
                 [] r = "again" ->
                      /\ cur' = [cur EXCEPT !["notion"] = [c1 EXCEPT !.attempt = @ + 1]]
                      /\ UNCHANGED <<wk, pages>>
                 [] OTHER ->
                      /\ RaiseWith("notion", c1, "post")
                      /\ UNCHANGED pages
       /\ UNCHANGED <<busVars, inv, storeVars, marker, expired, sched, resp, collVars, sideVars>>

\* redis_client.set(digest_published:<id>, 1, ex=86400)
NoMark ==
    LET c == cur["notion"]
    IN /\ wk["notion"].pc = "handler"
       /\ c.step = "mark"
       /\ \E busOk \in BOOLEAN :
            /\ marker' = marker_set(c.did, busOk)
            /\ cur' = [cur EXCEPT !["notion"] =
                         [c EXCEPT !.marked = busOk, !.step = "xack"]]
       /\ UNCHANGED <<busVars, wk, inv, storeVars, expired, pages, sched, resp, collVars, sideVars>>

\* redis_client.xack: marker present, row missing, or page created
NoXack ==
    LET c == cur["notion"]
    IN /\ wk["notion"].pc = "handler"
       /\ c.step = "xack"
       /\ \E busOk \in BOOLEAN :
            grp' = [grp EXCEPT !["notion"] = xack(@, c.msg, busOk)]
       /\ cur' = [cur EXCEPT !["notion"] =
                    [c EXCEPT !.ackIssued = TRUE, !.step = "done"]]
       /\ wk' = [wk EXCEPT !["notion"].pc = on_handler_return("notion", c.ctx)]
       /\ UNCHANGED <<stream, skeys, inv, storeVars, kbVars, sched, resp, collVars, sideVars>>

\* the marker's TTL (86400 s) runs out
Expire ==
    /\ \E d \in marker :
         /\ marker' = marker \ {d}
         /\ expired' = expired \cup {d}
    /\ UNCHANGED <<busVars, wk, cur, inv, storeVars, pages, sched, resp, collVars, sideVars>>

\* GET /notion/status
NoStatus ==
    /\ wk["notion"].pc # "off"
    /\ \E busOk \in BOOLEAN :
         resp' = status_endpoint("notion", "digests", "notion", busOk)
    /\ UNCHANGED <<busVars, wk, cur, inv, storeVars, kbVars, sched, collVars, sideVars>>

InitNo ==
    /\ articles = [a \in ArticleIds |-> NoRow]
    /\ digests \in SUBSET DigestIds
    /\ wk = Deployed("notion")
    /\ InitBase

NextNo ==
    \/ Produce("digest_stream")
    \/ Start("notion")
    \/ Crash("notion")
    \/ NoInit
    \/ Read("notion")
    \/ Take("notion")
    \/ BatchDone("notion")
    \/ NoBegin
    \/ NoPost
    \/ NoMark
    \/ NoXack
    \/ Expire
    \/ NoStatus

SpecNo == InitNo /\ [][NextNo]_vars

\* ------------------------------------------- Composer feeding Publisher
\* both workers deployed and staying up, the Analyzer's output arbitrary,
\* digest_stream written by the Composer only
InitPipe ==
    /\ articles \in [ArticleIds -> {CollectorRow, PriorRow(TRUE)}]
    /\ digests = {}
    /\ wk = [w \in W |-> IF w = "analyzer" THEN OffWorker ELSE DownWorker]
    /\ InitBase

NextPipe ==
    \/ Produce("enriched_articles")
    \/ \E w \in {"composer", "notion"} :
         \/ Start(w)
         \/ Read(w)
         \/ TakeUpTo(w, MaxPipeInv)
         \/ BatchDone(w)
    \/ CoInit
    \/ CoCompose("composer")
    \/ CoPublish("composer")
    \/ CoXack
    \/ NoInit
    \/ NoBegin
    \/ NoPost
    \/ NoMark
    \/ NoXack

SpecPipe == InitPipe /\ [][NextPipe]_vars

\* each worker with arbitrary producers on its stream
InitW == InitAn \/ InitCo \/ InitNo

NextW == NextAn \/ NextCo \/ NextNo

SpecW == InitW /\ [][NextW]_vars

\* --------------------------------------------------------- the Scheduler
\* what the trigger endpoints answer: GET /collect/rss and POST /compose
TriggerResponses(step) ==
    IF step = "collector" THEN {"ok", "http_error", "net_error"}
    ELSE {"ok", "no_content", "http_error", "net_error"}

\* trigger_collector / trigger_composer, one attempt: requests raises on a
\* network error, raise_for_status on 4xx/5xx, response.json() on an empty body
trigger(r) == IF r = "ok" THEN "return" ELSE "raise"

\* what the status endpoints answer (code 0: no answer at all)
StatusResponses ==
    {[code |-> 200, is_idle |-> TRUE, notfound |-> FALSE],
     [code |-> 200, is_idle |-> FALSE, notfound |-> FALSE],
     [code |-> 200, is_idle |-> TRUE, notfound |-> TRUE],
     [code |-> 404, is_idle |-> FALSE, notfound |-> FALSE],
     [code |-> 500, is_idle |-> FALSE, notfound |-> FALSE],
     [code |-> 0, is_idle |-> FALSE, notfound |-> FALSE]}

\* wait_for_service, one attempt
wait_for_service(r) ==
    IF r.code # 200 THEN "raise"
    ELSE IF ~r.is_idle
         THEN (IF r.notfound THEN "return" ELSE "raise")
         ELSE "return"

\* stop_after_attempt of the step's tenacity decorator
MaxAttempts(step) ==
    IF step \in {"collector", "composer"} THEN TriggerAttempts ELSE STATUS_MAX_ATTEMPTS

\* daily_job whose except clause around the Analyzer wait does not return
daily_job_next_ignores_wait(step, ok) ==
    CASE step = "collector" -> IF ok THEN "analyzer" ELSE "idle"
      [] step = "analyzer" -> "composer"
      [] step = "composer" -> IF ok THEN "notion" ELSE "idle"
      [] step = "notion" -> "idle"

\* daily_job whose except clause around the Collector trigger does not return
daily_job_next_no_return(step, ok) ==
    CASE step = "collector" -> "analyzer"
      [] step = "analyzer" -> IF ok THEN "composer" ELSE "idle"
      [] step = "composer" -> IF ok THEN "notion" ELSE "idle"
      [] step = "notion" -> "idle"

\* daily_job: the step that follows `step`; every except clause returns
daily_job_next(step, ok) ==
    IF ~ok THEN "idle"
    ELSE CASE step = "collector" -> "analyzer"
           [] step = "analyzer" -> "composer"
           [] step = "composer" -> "notion"
           [] step = "notion" -> "idle"

\* the exceptions the except clauses around `step` catch
daily_job_catches(step) == {"RetryError", "Exception"}

\* run_schedule: run_pending fires daily_job once a day
SchedFire ==
    /\ sched.step = "idle"
    /\ sched.loopAlive
    /\ sched.day < MaxDays
    /\ sched' = [IdleSched EXCEPT !.step = "collector", !.attempt = 1,
                                  !.day = sched.day + 1,
                                  !.trace = <<"collector">>,
                                  !.prevFailed = (sched.failedAt # "none")]
    /\ UNCHANGED <<busVars, wk, cur, inv, storeVars, kbVars, resp, collVars, sideVars>>

\* the outcome `o` of one attempt of the current step, made on the answer `r`
SchedOutcome(o, r) ==
    LET st == sched.step
    IN IF o = "return"
       THEN LET nxt == daily_job_next(st, TRUE)
            IN sched' = [sched EXCEPT
                           !.step = nxt, !.attempt = 1, !.got = r,
                           !.trace = IF nxt = "idle" THEN @ ELSE Append(@, nxt),
                           !.collectorOk = @ \/ st = "collector",
                           !.analyzerIdle = @ \/ st = "analyzer",
                           !.composeOk = @ \/ st = "composer"]
       ELSE IF sched.attempt < MaxAttempts(st)
       THEN sched' = [sched EXCEPT !.attempt = @ + 1, !.got = r]
       ELSE IF "RetryError" \in daily_job_catches(st)
       THEN LET nxt == daily_job_next(st, FALSE)
            IN sched' = [sched EXCEPT
                           !.step = nxt, !.attempt = 1, !.failedAt = st, !.got = r,
                           !.trace = IF nxt = "idle" THEN @ ELSE Append(@, nxt)]
       ELSE sched' = [sched EXCEPT !.step = "idle", !.failedAt = st, !.got = r,
                                   !.loopAlive = FALSE]

\* one attempt of trigger_collector or trigger_composer
SchedTrigger ==
    /\ sched.step \in {"collector", "composer"}
    /\ \E r \in TriggerResponses(sched.step) : SchedOutcome(trigger(r), r)
    /\ UNCHANGED <<busVars, wk, cur, inv, storeVars, kbVars, resp, collVars, sideVars>>

\* one attempt of wait_for_service on the Analyzer or the Publisher
SchedWait ==
    /\ sched.step \in {"analyzer", "notion"}
    /\ \E r \in StatusResponses : SchedOutcome(wait_for_service(r), "status")
    /\ UNCHANGED <<busVars, wk, cur, inv, storeVars, kbVars, resp, collVars, sideVars>>

InitSched ==
    /\ articles = [a \in ArticleIds |-> NoRow]
    /\ digests = {}
    /\ wk = [w \in W |-> OffWorker]
    /\ InitBase

NextSched == SchedFire \/ SchedTrigger \/ SchedWait

SpecSched == InitSched /\ [][NextSched]_vars

\* --------------------------------------------------------- the Collector
\* is_duplicate: RedisClient.sismember answers False on any bus error
is_duplicate(u, busOk) == busOk /\ u \in seen_urls

\* mark_seen: RedisClient.sadd adds the url when the bus answers, and
\* returns 0 on an error that nobody looks at
mark_seen(u, busOk) == IF busOk THEN seen_urls \cup {u} ELSE seen_urls

\* Article.url is declared unique=True
url_unique == TRUE

\* save_articles_to_db, one attempt on a reachable store: the row is
\* inserted, or the unique index on url refuses it (IntegrityError), which
\* is rolled back, logged and not re-raised.  The function returns None
\* either way.
save_articles_to_db(rows, u) ==
    IF url_unique /\ rows[u] > 0
    THEN [rows |-> rows, integrity |-> TRUE, raised |-> FALSE]
    ELSE [rows |-> [rows EXCEPT ![u] = @ + 1], integrity |-> FALSE, raised |-> FALSE]

\* GET /collect/rss: a run starts
CollStart ==
    /\ coll.pc = "idle"
    /\ coll.run < MaxRuns
    /\ coll' = [IdleColl EXCEPT !.pc = "feed", !.run = coll.run + 1, !.n = coll.n]
    /\ UNCHANGED <<busVars, wk, cur, inv, storeVars, kbVars, sched, resp, sideVars,
                   seen_urls, url_rows, raw_by_url>>

\* the next entry of the feed, with any url
CollNext ==
    /\ coll.pc = "feed"
    /\ coll.n < MaxEntries
    /\ \E u \in Urls :
         coll' = [coll EXCEPT !.pc = "dup", !.url = u, !.n = @ + 1, !.attempt = 0,
                              !.hitUnique = FALSE, !.published = FALSE,
                              !.counted = FALSE]
    /\ UNCHANGED <<busVars, wk, cur, inv, storeVars, kbVars, sched, resp, sideVars,
                   seen_urls, url_rows, raw_by_url>>

\* the feeds are exhausted: the run answers with its counters
CollEndRun ==
    /\ coll.pc = "feed"
    /\ coll' = [coll EXCEPT !.pc = "idle"]
    /\ UNCHANGED <<busVars, wk, cur, inv, storeVars, kbVars, sched, resp, sideVars,
                   seen_urls, url_rows, raw_by_url>>

\* member?(seen_urls, url): present -> skip and count as duplicate
CollIsDuplicate ==
    /\ coll.pc = "dup"
    /\ \E busOk \in BOOLEAN :
         IF is_duplicate(coll.url, busOk)
         THEN coll' = [coll EXCEPT !.pc = "feed", !.total_skipped = @ + 1]
         ELSE coll' = [coll EXCEPT !.pc = "save"]
    /\ UNCHANGED <<busVars, wk, cur, inv, storeVars, kbVars, sched, resp, sideVars,
                   seen_urls, url_rows, raw_by_url>>

\* insert into the store, under the retry wrapper of save_articles_to_db;
\* the caller goes on whenever the call returns
CollSave ==
    /\ coll.pc = "save"
    /\ \E dbOk \in BOOLEAN :
         IF dbOk
         THEN LET r == save_articles_to_db(url_rows, coll.url)
              IN /\ url_rows' = r.rows
                 /\ coll' = [coll EXCEPT !.pc = "mark", !.attempt = 0,
                                      !.hitUnique = r.integrity]
         ELSE /\ UNCHANGED url_rows
              /\ IF retry("error", coll.attempt, ServiceMaxRetries) = "again"
                 THEN coll' = [coll EXCEPT !.attempt = @ + 1]
                 ELSE coll' = [coll EXCEPT !.pc = "feed", !.attempt = 0,
                                           !.total_errors = @ + 1]
    /\ UNCHANGED <<busVars, wk, cur, inv, storeVars, kbVars, sched, resp, sideVars,
                   seen_urls, raw_by_url>>

\* add the url to seen_urls
CollMarkSeen ==
    /\ coll.pc = "mark"
    /\ \E busOk \in BOOLEAN : seen_urls' = mark_seen(coll.url, busOk)
    /\ coll' = [coll EXCEPT !.pc = "publish"]
    /\ UNCHANGED <<busVars, wk, cur, inv, storeVars, kbVars, sched, resp, sideVars,
                   url_rows, raw_by_url>>

\* publish_raw under its retry wrapper: append a raw_articles message, then
\* count the article as collected
CollPublish ==
    /\ coll.pc = "publish"
    /\ \E busOk \in BOOLEAN :
         IF busOk
         THEN /\ raw_by_url' = [raw_by_url EXCEPT ![coll.url] = @ + 1]
              /\ coll' = [coll EXCEPT !.pc = "feed", !.attempt = 0,
                                      !.published = TRUE, !.counted = TRUE,
                                      !.total_collected = @ + 1]
         ELSE /\ UNCHANGED raw_by_url
              /\ IF retry("error", coll.attempt, ServiceMaxRetries) = "again"
                 THEN coll' = [coll EXCEPT !.attempt = @ + 1]
                 ELSE coll' = [coll EXCEPT !.pc = "feed", !.attempt = 0,
                                           !.total_errors = @ + 1]
    /\ UNCHANGED <<busVars, wk, cur, inv, storeVars, kbVars, sched, resp, sideVars,
                   seen_urls, url_rows>>

InitColl ==
    /\ articles = [a \in ArticleIds |-> NoRow]
    /\ digests = {}
    /\ wk = [w \in W |-> OffWorker]
    /\ InitBase

NextColl ==
    \/ CollStart
    \/ CollNext
    \/ CollEndRun
    \/ CollIsDuplicate
    \/ CollSave
    \/ CollMarkSeen
    \/ CollPublish

SpecColl == InitColl /\ [][NextColl]_vars

\* ------------------------------------------------------- stream trimming
\* settings.service.stream_max_length, the STREAM_MAX_LENGTH setting
stream_max_length == 1000

\* the maxlen= the Collector's publish_raw passes to xadd
publish_raw_maxlen == 1000

Producers == {"raw_articles", "enriched_articles", "digest_stream"}

\* the maxlen= argument of each producer's xadd call; not given where the call
\* passes none and RedisClient.xadd's default None reaches the bus
xadd_maxlen(s) ==
    CASE s = "raw_articles" -> [given |-> TRUE, n |-> publish_raw_maxlen]
      [] s = "enriched_articles" -> [given |-> TRUE, n |-> stream_max_length]
      [] s = "digest_stream" -> [given |-> FALSE, n |-> 0]

\* RedisClient.xadd: the lengths the stream may have after one more entry. With no
\* maxlen the bus trims nothing. With maxlen and approximate=True the bus evicts
\* whole nodes only: it keeps at least maxlen entries and fewer than twice maxlen.
xadd_lengths(len, maxlen) ==
    IF ~maxlen.given THEN {len + 1}
    ELSE IF len + 1 <= maxlen.n THEN {len + 1}
    ELSE {n \in maxlen.n .. (len + 1) : n < 2 * maxlen.n}

\* one append of producer s (publish_raw, handle_message, publish_digest_ready)
TrimAppend(s) ==
    /\ trim.on = s
    /\ trim.len[s] < MaxAppends
    /\ \E n \in xadd_lengths(trim.len[s], xadd_maxlen(s)) :
           trim' = [trim EXCEPT !.len[s] = n]
    /\ UNCHANGED <<busVars, wk, cur, inv, storeVars, kbVars, sched, resp, collVars,
                   evloop, health, life, cb, rt, feed, ser>>

\* one producer runs per behaviour
InitTrim ==
    /\ articles = [a \in ArticleIds |-> NoRow]
    /\ digests = {}
    /\ wk = [w \in W |-> OffWorker]
    /\ InitCore
    /\ \E s \in Producers : trim = [IdleTrim EXCEPT !.on = s]
    /\ evloop = IdleLoop
    /\ health = IdleHealth
    /\ life = IdleLife
    /\ cb = IdleBreaker
    /\ rt = IdleRetry
    /\ feed = IdleFeed
    /\ ser = IdleSer

NextTrim == \E s \in Producers : TrimAppend(s)

SpecTrim == InitTrim /\ [][NextTrim]_vars

\* ------------------------------------------- the event loop of a process
\* Each component runs its worker as a task of the process's event loop
\* (asyncio.create_task in on_startup / lifespan); the same loop accepts and
\* answers the HTTP requests. One coroutine runs at a time and keeps the loop
\* until it awaits.

\* what the worker coroutine does once xreadgroup has returned, up to its next
\* await: "read" when it reaches the next xreadgroup without awaiting
after_read(w, entries) ==
    CASE w = "analyzer" -> IF entries = "empty" THEN "read" ELSE "sleep"
      [] w = "composer" -> "sleep"
      [] w = "notion" -> "sleep"

\* the loop is free to run another coroutine: to accept and answer a request
loop_free == evloop.running = "none"

\* the loop resumes the worker task, which calls RedisClient.xreadgroup(block=5000):
\* a plain call of a synchronous client, made on the loop's own thread
LoopResumeWorker ==
    /\ loop_free
    /\ evloop.wpc = "ready"
    /\ evloop.reads < MaxReads
    /\ evloop' = [evloop EXCEPT !.running = "worker", !.wpc = "read",
                                  !.reads = @ + 1]
    /\ UNCHANGED <<busVars, wk, cur, inv, storeVars, kbVars, sched, resp, collVars,
                   trim, health, life, cb, rt, feed, ser>>

\* xreadgroup returns, after at most the block time
ReadReturns ==
    /\ evloop.wpc = "read"
    /\ \E entries \in {"empty", "some"} :
         IF after_read(evloop.comp, entries) = "read"
           THEN /\ evloop.reads < MaxReads
                /\ evloop' = [evloop EXCEPT !.reads = @ + 1]
           ELSE evloop' = [evloop EXCEPT !.running = "none", !.wpc = "sleep"]
    /\ UNCHANGED <<busVars, wk, cur, inv, storeVars, kbVars, sched, resp, collVars,
                   trim, health, life, cb, rt, feed, ser>>

\* the worker's asyncio.sleep is over: the task is ready to run again
SleepDone ==
    /\ evloop.wpc = "sleep"
    /\ evloop' = [evloop EXCEPT !.wpc = "ready"]
    /\ UNCHANGED <<busVars, wk, cur, inv, storeVars, kbVars, sched, resp, collVars,
                   trim, health, life, cb, rt, feed, ser>>

\* a client sends a request to the process
HttpArrive ==
    /\ evloop.comp # "none"
    /\ evloop.reqs < MaxReqs
    /\ evloop' = [evloop EXCEPT !.reqs = @ + 1]
    /\ UNCHANGED <<busVars, wk, cur, inv, storeVars, kbVars, sched, resp, collVars,
                   trim, health, life, cb, rt, feed, ser>>

\* the loop accepts a waiting request and sends its answer
HttpAnswer ==
    /\ loop_free
    /\ evloop.answered < evloop.reqs
    /\ evloop' = [evloop EXCEPT !.answered = @ + 1]
    /\ UNCHANGED <<busVars, wk, cur, inv, storeVars, kbVars, sched, resp, collVars,
                   trim, health, life, cb, rt, feed, ser>>

\* on_startup / lifespan: the worker task is created and the server starts
InitLoop ==
    /\ articles = [a \in ArticleIds |-> NoRow]
    /\ digests = {}
    /\ wk = [w \in W |-> OffWorker]
    /\ InitCore
    /\ trim = IdleTrim
    /\ \E w \in W : evloop = [IdleLoop EXCEPT !.comp = w, !.wpc = "ready"]
    /\ health = IdleHealth
    /\ life = IdleLife
    /\ cb = IdleBreaker
    /\ rt = IdleRetry
    /\ feed = IdleFeed
    /\ ser = IdleSer

NextLoop == LoopResumeWorker \/ ReadReturns \/ SleepDone \/ HttpArrive \/ HttpAnswer

SpecLoop == InitLoop /\ [][NextLoop]_vars

\* --------------------------------------------------- health and readiness
Services == {"collector", "analyzer", "composer", "notion_worker"}

\* RedisClient.ping: any error of the bus is caught and answered with False
ping(busUp) == [raised |-> FALSE, value |-> busUp]

\* HealthChecker.check_database: SELECT 1 raises when the store is unreachable
check_database(up) == IF up["database"] THEN "healthy" ELSE "unhealthy"

\* HealthChecker.check_redis: unhealthy only when ping() raises; the value ping()
\* returns is not looked at
check_redis(up) == IF ping(up["redis"]).raised THEN "unhealthy" ELSE "healthy"

\* HealthChecker.check_openai: models.list() raises when the LLM is unreachable
check_openai(up) == IF up["openai"] THEN "healthy" ELSE "unhealthy"

\* HealthChecker.check_notion: users.me() raises when the knowledge base is
\* unreachable
check_notion(up) == IF up["notion"] THEN "healthy" ELSE "unhealthy"

\* HealthChecker.check_http_endpoint on a feed URL
check_http_endpoint(up) == IF up["rss_feed_0"] THEN "healthy" ELSE "unhealthy"

\* create_*_health_checker: the checks registered for each service
registered_checks(svc) ==
    CASE svc = "collector" -> {"database", "redis", "rss_feed_0"}
      [] svc = "analyzer" -> {"database", "redis", "openai"}
      [] svc = "composer" -> {"database", "redis"}
      [] svc = "notion_worker" -> {"database", "redis", "notion"}

run_check(name, up) ==
    CASE name = "database" -> check_database(up)
      [] name = "redis" -> check_redis(up)
      [] name = "openai" -> check_openai(up)
      [] name = "notion" -> check_notion(up)
      [] name = "rss_feed_0" -> check_http_endpoint(up)

\* HealthChecker.run_all_checks: unhealthy as soon as one registered check is
\* (no check answers degraded)
run_all_checks(svc, up) ==
    [status |-> IF \E n \in registered_checks(svc) : run_check(n, up) = "unhealthy"
                  THEN "unhealthy" ELSE "healthy",
     checks |-> [n \in registered_checks(svc) |-> run_check(n, up)]]

\* the names each readiness_check route keeps as critical
critical_names(svc) ==
    CASE svc = "collector" -> {"database", "redis"}
      [] svc = "analyzer" -> {"database", "redis", "openai"}
      [] svc = "composer" -> {"database", "redis"}
      [] svc = "notion_worker" -> {"database", "redis", "notion"}

\* GET /<name>/health/ready
readiness_check(svc, up) ==
    LET data == run_all_checks(svc, up)
        critical == registered_checks(svc) \cap critical_names(svc)
    IN IF \A n \in critical : data.checks[n] = "healthy" THEN "ready" ELSE "not_ready"

HealthGet ==
    /\ health.endpoint = "none" /\ health.comp # "none"
    /\ health' = [health EXCEPT !.endpoint = "health",
                                  !.status = run_all_checks(health.comp, health.up).status]
    /\ UNCHANGED <<busVars, wk, cur, inv, storeVars, kbVars, sched, resp, collVars,
                   trim, evloop, life, cb, rt, feed, ser>>

ReadyGet ==
    /\ health.endpoint = "none" /\ health.comp # "none"
    /\ health' = [health EXCEPT !.endpoint = "ready",
                                  !.status = readiness_check(health.comp, health.up)]
    /\ UNCHANGED <<busVars, wk, cur, inv, storeVars, kbVars, sched, resp, collVars,
                   trim, evloop, life, cb, rt, feed, ser>>

\* a dependency goes down or comes back between two requests
DependencyFlips ==
    /\ health.comp # "none"
    /\ \E d \in Dependencies :
         health' = [health EXCEPT !.up[d] = ~@, !.endpoint = "none", !.status = "none"]
    /\ UNCHANGED <<busVars, wk, cur, inv, storeVars, kbVars, sched, resp, collVars,
                   trim, evloop, life, cb, rt, feed, ser>>

InitHealth ==
    /\ articles = [a \in ArticleIds |-> NoRow]
    /\ digests = {}
    /\ wk = [w \in W |-> OffWorker]
    /\ InitCore
    /\ trim = IdleTrim
    /\ evloop = IdleLoop
    /\ \E svc \in Services : health = [IdleHealth EXCEPT !.comp = svc]
    /\ life = IdleLife
    /\ cb = IdleBreaker
    /\ rt = IdleRetry
    /\ feed = IdleFeed
    /\ ser = IdleSer

NextHealth == HealthGet \/ ReadyGet \/ DependencyFlips

SpecHealth == InitHealth /\ [][NextHealth]_vars

\* ------------------------------------------------------------- shutdown
\* The worker task and the shutdown code share the process's event loop: the
\* task runs only while the shutdown code awaits or has returned.

\* what each component's shutdown code does before its first await:
\* cancel = task.cancel(), wait = await task, close = close_all_redis_clients()
shutdown_steps(w) ==
    CASE w = "analyzer" -> <<"close">>                       \* on_shutdown
      [] w = "composer" -> <<"cancel", "wait", "close">>     \* lifespan, finally
      [] w = "notion" -> <<"cancel">>                        \* lifespan, after yield

\* RedisClient.close: the connection is closed and forgotten
close(l) == [l EXCEPT !.client = "closed", !.closed = TRUE]

\* RedisClient._get_client: a forgotten connection is opened again on the next use
get_client(l) == [l EXCEPT !.client = "open"]

\* the shutdown code up to its first await, or to its end
RECURSIVE run_shutdown(_, _)
run_shutdown(l, steps) ==
    IF steps = <<>> THEN [l EXCEPT !.phase = "stopped"]
    ELSE CASE Head(steps) = "cancel" ->
                run_shutdown([l EXCEPT !.task = IF @ = "done" THEN @ ELSE "cancelling"],
                             Tail(steps))
           [] Head(steps) = "wait" ->
                IF l.task = "done" THEN run_shutdown(l, Tail(steps))
                ELSE [l EXCEPT !.phase = "waiting"]
           [] Head(steps) = "close" -> run_shutdown(close(l), Tail(steps))

\* the server answers a request while it is serving
LifeServe ==
    /\ life.phase = "serving"
    /\ life.served < MaxReqs
    /\ life' = [life EXCEPT !.served = @ + 1]
    /\ UNCHANGED <<busVars, wk, cur, inv, storeVars, kbVars, sched, resp, collVars,
                   trim, evloop, health, cb, rt, feed, ser>>

\* SIGTERM: the server runs the component's shutdown code
Sigterm ==
    /\ life.phase = "serving"
    /\ life' = run_shutdown(life, shutdown_steps(life.comp))
    /\ UNCHANGED <<busVars, wk, cur, inv, storeVars, kbVars, sched, resp, collVars,
                   trim, evloop, health, cb, rt, feed, ser>>

\* the loop resumes the worker task at its await: a cancelled task ends there
\* with CancelledError, any other goes round its loop once more and calls
\* xreadgroup on the client it holds
WorkerResumes ==
    /\ life.phase \in {"serving", "waiting", "stopped"}
    /\ life.task \in {"suspended", "cancelling"}
    /\ IF life.task = "cancelling"
         THEN life' = [life EXCEPT !.task = "done"]
         ELSE /\ life.ops < MaxOps
              /\ life' = [get_client(life) EXCEPT
                             !.ops = @ + 1,
                             !.late = IF life.closed THEN @ + 1 ELSE @]
    /\ UNCHANGED <<busVars, wk, cur, inv, storeVars, kbVars, sched, resp, collVars,
                   trim, evloop, health, cb, rt, feed, ser>>

\* await task returns: the rest of the shutdown code runs
WaitReturns ==
    /\ life.phase = "waiting"
    /\ life.task = "done"
    /\ life' = run_shutdown(life, <<"close">>)
    /\ UNCHANGED <<busVars, wk, cur, inv, storeVars, kbVars, sched, resp, collVars,
                   trim, evloop, health, cb, rt, feed, ser>>

\* the server has returned and the loop is torn down: what is left of the
\* tasks is cancelled
ProcessExits ==
    /\ life.phase = "stopped"
    /\ life' = [life EXCEPT !.phase = "exited", !.task = "done"]
    /\ UNCHANGED <<busVars, wk, cur, inv, storeVars, kbVars, sched, resp, collVars,
                   trim, evloop, health, cb, rt, feed, ser>>

\* on_startup / lifespan: the worker task is created, the client is connected
InitLife ==
    /\ articles = [a \in ArticleIds |-> NoRow]
    /\ digests = {}
    /\ wk = [w \in W |-> OffWorker]
    /\ InitCore
    /\ trim = IdleTrim
    /\ evloop = IdleLoop
    /\ health = IdleHealth
    /\ \E w \in W :
         life = [IdleLife EXCEPT !.comp = w, !.phase = "serving",
                                 !.task = "suspended", !.client = "open"]
    /\ cb = IdleBreaker
    /\ rt = IdleRetry
    /\ feed = IdleFeed
    /\ ser = IdleSer

NextLife == LifeServe \/ Sigterm \/ WorkerResumes \/ WaitReturns \/ ProcessExits

SpecLife == InitLife /\ [][NextLife]_vars

\* ------------------------------------------------------ the circuit breaker
\* CircuitBreaker._should_attempt_reset
should_attempt_reset(b) ==
    IF ~b.last_failure_time.set THEN TRUE
    ELSE (b.now - b.last_failure_time.t) >= b.recovery_timeout

\* _on_success that resets the count and leaves the state
on_success_keeps_state(b) == [b EXCEPT !.failure_count = 0]

\* CircuitBreaker._on_success
on_success(b) ==
    [b EXCEPT !.failure_count = 0,
              !.state = IF @ = "HALF_OPEN" THEN "CLOSED" ELSE @]

\* _on_failure that opens only above the threshold
on_failure_above_threshold(b) ==
    LET n == b.failure_count + 1
    IN [b EXCEPT !.failure_count = n,
                 !.last_failure_time = [set |-> TRUE, t |-> b.now],
                 !.state = IF n > b.failure_threshold THEN "OPEN" ELSE @]

\* CircuitBreaker._on_failure
on_failure(b) ==
    LET n == b.failure_count + 1
    IN [b EXCEPT !.failure_count = n,
                 !.last_failure_time = [set |-> TRUE, t |-> b.now],
                 !.state = IF n >= b.failure_threshold THEN "OPEN" ELSE @]

\* CircuitBreaker.call on a function whose outcome is o: "ok", "expected" (it
\* raises expected_exception) or "other" (it raises anything else)
call(b, o) ==
    LET rejected == b.state = "OPEN" /\ ~should_attempt_reset(b)
        b1 == IF b.state = "OPEN" /\ ~rejected
                THEN [b EXCEPT !.state = "HALF_OPEN"] ELSE b
    IN IF rejected
       THEN [b |-> b, invoked |-> FALSE, via |-> b.state, result |-> "raise_open"]
       ELSE CASE o = "ok" ->
                   [b |-> on_success(b1), invoked |-> TRUE, via |-> b1.state,
                    result |-> "return"]
              [] o = "expected" ->
                   [b |-> on_failure(b1), invoked |-> TRUE, via |-> b1.state,
                    result |-> "raise"]
              [] o = "other" ->
                   [b |-> b1, invoked |-> TRUE, via |-> b1.state, result |-> "raise"]

\* one call through the breaker; streak counts the expected failures of the
\* wrapped function since its last success, elapsed is told by the clock
BreakerCall ==
    /\ cb.state # "none"
    /\ cb.calls < MaxCalls
    /\ \E o \in {"ok", "expected", "other"} :
         LET r == call(cb, o)
             el == cb.last_failure_time.set
                     /\ cb.now >= cb.last_failure_time.t + cb.recovery_timeout
         IN cb' = [r.b EXCEPT
                     !.calls = @ + 1,
                     !.streak = IF ~r.invoked \/ o = "other" THEN @
                                ELSE IF o = "ok" THEN 0 ELSE @ + 1,
                     !.last = [made |-> TRUE, pre |-> cb.state, elapsed |-> el,
                               invoked |-> r.invoked, via |-> r.via,
                               outcome |-> IF r.invoked THEN o ELSE "none",
                               result |-> r.result]]
    /\ UNCHANGED <<busVars, wk, cur, inv, storeVars, kbVars, sched, resp, collVars,
                   trim, evloop, health, life, rt, feed, ser>>

\* time.time() advances
BreakerTick ==
    /\ cb.state # "none"
    /\ cb.now < MaxTime
    /\ cb' = [cb EXCEPT !.now = @ + 1]
    /\ UNCHANGED <<busVars, wk, cur, inv, storeVars, kbVars, sched, resp, collVars,
                   trim, evloop, health, life, rt, feed, ser>>

\* CircuitBreaker.__init__
InitBreaker ==
    /\ articles = [a \in ArticleIds |-> NoRow]
    /\ digests = {}
    /\ wk = [w \in W |-> OffWorker]
    /\ InitCore
    /\ trim = IdleTrim
    /\ evloop = IdleLoop
    /\ health = IdleHealth
    /\ life = IdleLife
    /\ \E th \in 1 .. MaxThreshold, tmo \in 1 .. MaxTimeout :
         cb = [IdleBreaker EXCEPT !.failure_threshold = th, !.recovery_timeout = tmo,
                                  !.state = "CLOSED"]
    /\ rt = IdleRetry
    /\ feed = IdleFeed
    /\ ser = IdleSer

NextBreaker == BreakerCall \/ BreakerTick

SpecBreaker == InitBreaker /\ [][NextBreaker]_vars

\* --------------------------------------------------- the retry decorators
\* config.max_retries of the wrapper: max_retries or settings.service.max_retries
\* (an argument of None or 0 gives way to the setting)
config_max_retries(arg) == IF arg = 0 THEN ServiceMaxRetries ELSE arg

\* one iteration of the wrapper's loop: the function is called and ends with
\* outcome o
RetryAttempt ==
    /\ rt.done = "running"
    /\ \E o \in {"ok", "retryable", "nonretryable"} :
         LET r == retry(o, rt.attempt, config_max_retries(rt.arg))
             counted == [rt EXCEPT !.calls = @ + 1,
                                   !.oks = IF o = "ok" THEN @ + 1 ELSE @,
                                   !.fails = IF o = "retryable" THEN @ + 1 ELSE @,
                                   !.fatals = IF o = "nonretryable" THEN @ + 1 ELSE @]
         IN rt' = CASE r = "return" -> [counted EXCEPT !.done = "return"]
                    [] r = "again" -> [counted EXCEPT !.attempt = @ + 1]
                    [] r = "raise" -> [counted EXCEPT !.done = "RetryError"]
                    [] r = "reraise" -> [counted EXCEPT !.done = "reraise"]
    /\ UNCHANGED <<busVars, wk, cur, inv, storeVars, kbVars, sched, resp, collVars,
                   trim, evloop, health, life, cb, feed, ser>>

\* a wrapped function is called: the wrapper starts its loop at attempt 0
InitRetry ==
    /\ articles = [a \in ArticleIds |-> NoRow]
    /\ digests = {}
    /\ wk = [w \in W |-> OffWorker]
    /\ InitCore
    /\ trim = IdleTrim
    /\ evloop = IdleLoop
    /\ health = IdleHealth
    /\ life = IdleLife
    /\ cb = IdleBreaker
    /\ \E wr \in {"retry", "async_retry"}, arg \in 0 .. MaxRetriesArg :
         rt = [IdleRetry EXCEPT !.wrapper = wr, !.arg = arg, !.done = "running"]
    /\ feed = IdleFeed
    /\ ser = IdleSer

NextRetry == RetryAttempt

SpecRetry == InitRetry /\ [][NextRetry]_vars

\* ------------------------------------------------------------ parse_feed
\* the links a feed entry can carry
Links == {"wellformed", "malformed"}

\* Article(...): the model declares url as str, so every link string validates
Article_accepts(link) == link \in Links

RECURSIVE parse_feed(_)
\* parse_feed on the entries feedparser returned: an entry is left out only when
\* building its Article raises
parse_feed(entries) ==
    IF entries = <<>> THEN <<>>
    ELSE (IF Article_accepts(Head(entries).link)
            THEN <<[url |-> Head(entries).link]>> ELSE <<>>)
         \o parse_feed(Tail(entries))

ParseFeed ==
    /\ ~feed.parsed
    /\ feed' = [feed EXCEPT !.parsed = TRUE, !.out = parse_feed(feed.entries)]
    /\ UNCHANGED <<busVars, wk, cur, inv, storeVars, kbVars, sched, resp, collVars,
                   trim, evloop, health, life, cb, rt, ser>>

\* feedparser.parse returned a feed of up to MaxFeedLen entries
InitParse ==
    /\ articles = [a \in ArticleIds |-> NoRow]
    /\ digests = {}
    /\ wk = [w \in W |-> OffWorker]
    /\ InitCore
    /\ trim = IdleTrim
    /\ evloop = IdleLoop
    /\ health = IdleHealth
    /\ life = IdleLife
    /\ cb = IdleBreaker
    /\ rt = IdleRetry
    /\ \E n \in 0 .. MaxFeedLen : \E es \in [1 .. n -> [link : Links]] :
         feed = [IdleFeed EXCEPT !.entries = es]
    /\ ser = IdleSer

NextParse == ParseFeed

SpecParse == InitParse /\ [][NextParse]_vars

\* ------------------------------------------- serialisation in RedisClient.xadd
\* a field of a dump: its name and the Python type of its value
Field(name, kind) == [name |-> name, kind |-> kind]

\* RawArticle(...).model_dump() as publish_raw builds it; published_at is a
\* datetime or None
RawArticleDump(pub) ==
    <<Field("version", "str"), Field("id", "UUID"), Field("title", "str"),
      Field("url", "str"), Field("summary", "str"), Field("categories", "str"),
      Field("published_at", pub), Field("source", "str")>>

\* enriched.model_dump(exclude_none=True) as handle_message builds it
EnrichedArticleDump(pub) ==
    SelectSeq(RawArticleDump(pub), LAMBDA f : f.kind # "None")
       \o <<Field("relevance_score", "float"), Field("developer_focus", "bool")>>

\* the payload publish_digest_ready builds: every value through str() or
\* isoformat()
DigestReadyPayload ==
    <<Field("version", "str"), Field("digest_id", "str"), Field("title", "str"),
      Field("summary", "str"), Field("url", "str"), Field("source", "str"),
      Field("inserted_at", "str")>>

\* the dumps the three producers hand to xadd
Dumps ==
    [model : {"RawArticle"}, fields : {RawArticleDump(pub) : pub \in {"datetime", "None"}}]
      \cup [model : {"EnrichedArticle"},
            fields : {EnrichedArticleDump(pub) : pub \in {"datetime", "None"}}]
      \cup [model : {"DigestReady"}, fields : {DigestReadyPayload}]

\* RedisClient._serialize_value, on the type of the value: the type of what it
\* returns. `return str(value)` belongs to the isoformat branch, so a value of
\* any other type falls off the end of the function
serialize_value(kind) ==
    CASE kind = "None" -> "str"
      [] kind = "bool" -> "int"
      [] kind \in {"bytes", "str", "int", "float"} -> kind
      [] kind = "datetime" -> "str"
      [] OTHER -> "None"

\* a producer calls RedisClient.xadd with a dump
SerBegin ==
    /\ ser.i = Len(ser.fields)
    /\ ser.n < MaxXadds
    /\ \E d \in Dumps :
         ser' = [n |-> ser.n + 1, model |-> d.model, fields |-> d.fields, i |-> 0,
                 encoded |-> <<>>]
    /\ UNCHANGED <<busVars, wk, cur, inv, storeVars, kbVars, sched, resp, collVars,
                   trim, evloop, health, life, cb, rt, feed>>

\* encoded_fields = {k: self._serialize_value(v) ...}: the next field
SerField ==
    /\ ser.i < Len(ser.fields)
    /\ ser' = [ser EXCEPT !.i = @ + 1,
                           !.encoded = Append(@, Field(ser.fields[ser.i + 1].name,
                                                   serialize_value(ser.fields[ser.i + 1].kind)))]
    /\ UNCHANGED <<busVars, wk, cur, inv, storeVars, kbVars, sched, resp, collVars,
                   trim, evloop, health, life, cb, rt, feed>>

InitSer ==
    /\ articles = [a \in ArticleIds |-> NoRow]
    /\ digests = {}
    /\ wk = [w \in W |-> OffWorker]
    /\ InitCore
    /\ trim = IdleTrim
    /\ evloop = IdleLoop
    /\ health = IdleHealth
    /\ life = IdleLife
    /\ cb = IdleBreaker
    /\ rt = IdleRetry
    /\ feed = IdleFeed
    /\ ser = IdleSer

NextSer == SerBegin \/ SerField

SpecSer == InitSer /\ [][NextSer]_vars

\* ================================================================ claims
\* the worker has left its start-up phase
StartupDone(w) ==
    \/ wk[w].pc = "dead"
    \/ wk[w].pc \in {"loop", "batch", "handler"} /\ wk[w].ctx = "loop"

\* C1: the Analyzer handler issues the ack of a raw_articles message only
\* after, in the same invocation, the upsert committed and the append to
\* enriched_articles returned; an invocation that failed at validation,
\* fetch, summarize, upsert or append issued no ack.
C1_AckAfterEffects ==
    LET c == cur["analyzer"]
    IN /\ c.ackIssued => (c.committed /\ c.appended)
       /\ c.failed \in {"validation", "fetch", "summarize", "upsert", "append"}
            => ~c.ackIssued

\* an invocation that committed, appended and then acked
C1_Witness ==
    LET c == cur["analyzer"]
    IN c.inv > 0 /\ c.step = "done" /\ c.failed = "none" /\ c.ackIssued
       /\ c.committed /\ c.appended

\* C2: for a digest id whose marker never expired, the knowledge base has
\* got at most one page, whatever the deliveries and the bus failures.
\* (Only answered create-page calls are counted: a retried attempt that the
\* knowledge base refused is not held against the claim.)
C2_AtMostOnePage == \A d \in DigestIds \ expired : pages[d] <= 1

\* the Analyzer has committed a row for article a
Enriched(a) == lastCommit[a] # 0

\* no invocation on article a is between its start and its return or raise
Quiescent(a) ==
    LET c == cur["analyzer"]
    IN c.step = "done" /\ c.failed # "killed"

\* C3 as stated: once the handler is not running, an enriched row holds the
\* three fields of one invocation, and that invocation is the latest one
\* that returned normally.
C3_LatestSuccessful ==
    \A a \in ArticleIds :
      (Enriched(a) /\ Quiescent(a)) =>
         /\ articles[a].summary.by = articles[a].relevance_score.by
         /\ articles[a].summary.by = articles[a].developer_focus.by
         /\ articles[a].relevance_score.set
         /\ articles[a].summary.by = lastOk[a]

\* C3 as amended: in every state the Analyzer committed, the three
\* enrichment fields are those of one invocation, the latest one whose
\* upsert committed (it may have failed afterwards); an invocation that
\* returned normally is never newer than the row.
C3_LatestCommitted ==
    \A a \in ArticleIds :
      Enriched(a) =>
         /\ articles[a].present
         /\ articles[a].summary.set /\ articles[a].relevance_score.set
         /\ articles[a].summary.by = lastCommit[a]
         /\ articles[a].relevance_score.by = lastCommit[a]
         /\ articles[a].developer_focus.by = lastCommit[a]
         /\ lastOk[a] <= lastCommit[a]

\* a row that existed before is overwritten by an invocation whose append
\* then failed: the row is ahead of the latest successful invocation
C3_Witness ==
    LET c == cur["analyzer"]
    IN /\ c.failed = "append" /\ c.committed
       /\ \E a \in ArticleIds :
            /\ stream["raw_articles"][c.msg].id = a
            /\ articles[a].summary.by = c.inv
            /\ lastOk[a] # c.inv

\* C5: when the Analyzer has left its start-up phase, every message that
\* was pending at the start (the first 10) has been handed to the handler.
C5_ReclaimBeforeLoop ==
    StartupDone("analyzer") =>
        wk["analyzer"].startPending \subseteq wk["analyzer"].rehandled

\* C6: when the Composer or the Publisher has left its start-up phase,
\* every message that was pending in its group at the start has been
\* handed to the handler again.
C6_ReclaimInComposerPublisher ==
    \A w \in {"composer", "notion"} :
        StartupDone(w) => wk[w].startPending \subseteq wk[w].rehandled

\* C7: in the steady-state loop of every worker, a message whose handler
\* raised (schema validation included) stays unacked and pending, the
\* worker is not ended by it, and the loop goes back to the group-read only
\* when every message of the batch has been handed to the handler.
C7_HandlerErrorIsolated ==
    \A w \in W :
      /\ (cur[w].ctx = "loop" /\ cur[w].failed \notin {"none", "killed"})
            => (~cur[w].ackIssued /\ cur[w].msg \in grp[w].pending)
      /\ wk[w].raisedInLoop => wk[w].pc \in {"batch", "handler", "loop"}
      /\ wk[w].pc = "loop" => wk[w].lastBatch \subseteq wk[w].handled

\* a batch of two whose first handler raised at validation and whose second
\* message was handled all the same, the worker back at the group-read
C7_Witness ==
    \E w \in W :
      /\ wk[w].pc = "loop" /\ wk[w].raisedInLoop
      /\ Cardinality(wk[w].lastBatch) = 2
      /\ wk[w].handled = wk[w].lastBatch
      /\ cur[w].failed = "none" /\ cur[w].ackIssued
      /\ \E m \in wk[w].lastBatch : m \in grp[w].pending

\* C8: /compose is POSTed only after the Collector trigger succeeded and the
\* Analyzer status answered idle in this run, the Publisher is polled only
\* after /compose succeeded, and the steps run in the fixed order.
C8_StepsInOrder ==
    LET t == sched.trace
        order == <<"collector", "analyzer", "composer", "notion">>
    IN /\ Len(t) <= 4
       /\ \A i \in DOMAIN t : t[i] = order[i]
       /\ "composer" \in Range(t) => (sched.collectorOk /\ sched.analyzerIdle)
       /\ "notion" \in Range(t) => sched.composeOk

\* a run that got as far as polling the Publisher
C8_Witness == sched.step = "notion" /\ sched.attempt > 1

\* C9: a step that failed after its retries is the last step of that run,
\* daily_job has returned and the schedule loop is alive.
C9_FailureEndsRun ==
    /\ sched.loopAlive
    /\ sched.failedAt # "none" =>
         /\ sched.step = "idle"
         /\ sched.trace[Len(sched.trace)] = sched.failedAt

\* the run of the next day has started after a run that failed at a step
C9_Witness == sched.prevFailed /\ sched.day = 2 /\ sched.step = "analyzer"

\* C10: a status request that finds the stream but not the group on a
\* reachable bus is answered 404.
C10_MissingGroupIs404 ==
    (resp.endpoint # "none" /\ resp.busOk /\ resp.streamExisted /\ ~resp.groupExisted)
        => resp.code = 404

\* the group of worker w has nothing undelivered and nothing pending on the
\* stream the worker consumes
Drained(w) ==
    /\ grp[w].last = Len(stream[StreamOf(w)])
    /\ grp[w].pending = {}

\* C11: /notion/status evaluates the drain predicate on digest_stream, the
\* stream the Publisher reads, and answers is_idle=true only when that
\* stream has nothing undelivered and nothing pending for the notion group.
C11_StatusOnConsumedStream ==
    resp.endpoint = "notion" =>
        /\ resp.stream = StreamOf("notion")
        /\ resp.is_idle => Drained("notion")

\* C12: within one Analyzer invocation the URL fetch is attempted at most 3
\* times and the LLM completion call at most 3 times (calls counts the
\* attempts of the call the invocation is at, or failed at).
C12_AtMostThreeAttempts ==
    LET c == cur["analyzer"]
    IN (c.step \in {"fetch", "summarize"} \/ c.failed \in {"fetch", "summarize"})
          => c.calls <= 3

C15_AckAfterMarkerStored ==
    LET c == cur["notion"]
    IN (c.posted /\ c.ackIssued) => c.marked

\* C16: a message whose marker is present, or whose Digest row is missing,
\* is acked without any create-page call; with the row missing no marker is
\* set.
C16_SkipWithoutPage ==
    LET c == cur["notion"]
    IN (c.hadMarker \/ c.found = "empty") =>
          /\ c.calls = 0 /\ ~c.posted
          /\ (c.step = "done" /\ c.failed = "none") => c.ackIssued
          /\ c.found = "empty" => ~c.marked

\* C17: one handling makes at most 3 create-page calls, goes to the next
\* attempt only after a transient HTTP error, and when the call failed for
\* good it has set no marker and issued no ack, the message staying pending.
C17_PostAtMostThrice ==
    LET c == cur["notion"]
    IN /\ c.calls <= 3
       /\ (c.step = "post" /\ c.calls > 0) => c.last = "transient"
       /\ c.failed = "post" =>
            /\ ~c.marked /\ ~c.ackIssued /\ ~c.posted
            /\ c.msg \in grp["notion"].pending
            /\ c.calls < 3 => c.last = "other"

\* three transient errors in a row: the third one is raised
C17_Witness ==
    LET c == cur["notion"]
    IN c.failed = "post" /\ c.calls = 3 /\ c.last = "transient"
       /\ c.did \notin marker /\ pages[c.did] = 0

C19_InvalidMarkdownRaises ==
    \A k \in {"composer", "http"} :
      LET c == cur[k]
      IN c.md \notin {"none", "ok"} =>
           /\ c.failed \in {"markdown", "killed"}
           /\ ~c.committed /\ ~c.appended /\ ~c.ackIssued
           /\ (k = "composer" /\ c.failed = "markdown")
                => c.msg \in grp["composer"].pending

\* the template gave an empty string for the worker's message
C19_Witness ==
    LET c == cur["composer"]
    IN /\ c.md = "empty" /\ c.failed = "markdown"
       /\ c.msg \in grp["composer"].pending
       /\ digests = {} /\ stream["digest_stream"] = <<>>

RECURSIVE SumPages(_)
\* pages created for the digest ids of D
SumPages(D) ==
    IF D = {} THEN 0
    ELSE LET d == CHOOSE x \in D : TRUE IN pages[d] + SumPages(D \ {d})

\* C20: when enriched_articles holds two messages with the same article id
\* (and nothing else), the knowledge base ends up with at most one page.
C20_OnePagePerRedeliveredArticle ==
    LET e == stream["enriched_articles"]
    IN (Len(e) = 2 /\ e[1].id = e[2].id /\ e[1].valid /\ e[2].valid)
          => SumPages(DigestIds) <= 1

\* C21: every Digest row the Composer creates has the url "/digests/" followed by
\* that same row's identifier, and the source "AI-Tech"
C21_DigestUrlCarriesRowId ==
    \A k \in {"composer", "http"} :
        cur[k].committed
            => /\ cur[k].url = [prefix |-> "/digests/", id |-> cur[k].did]
               /\ cur[k].source = "AI-Tech"

\* C22: every append to raw_articles, enriched_articles and digest_stream trims
\* the stream to approximately STREAM_MAX_LENGTH entries: no stream ever holds
\* twice that many
C22_StreamsTrimmed ==
    \A s \in Producers : trim.len[s] < 2 * stream_max_length

\* C23: while a worker coroutine waits in its blocking group-read, the HTTP
\* server of the same process can still accept and answer a waiting request
C23_ReadDoesNotStarveHttp ==
    (evloop.wpc = "read" /\ evloop.answered < evloop.reqs) => loop_free

\* the dependencies the specification calls critical for a service
CriticalDeps(svc) ==
    {"database", "redis"}
        \cup (IF svc = "analyzer" THEN {"openai"} ELSE {})
        \cup (IF svc = "notion_worker" THEN {"notion"} ELSE {})

\* C24: the health endpoint answers healthy, and the readiness endpoint ready,
\* if and only if every critical dependency of the service is reachable
C24_HealthyIffCriticalReachable ==
    LET ok == \A d \in CriticalDeps(health.comp) : health.up[d]
    IN /\ health.endpoint = "health" => (health.status = "healthy" <=> ok)
       /\ health.endpoint = "ready" => (health.status = "ready" <=> ok)

\* C25: once summary or relevance_score of an article row is non-null, no later
\* write sets it back to null; the row stays and its developer_focus stays a
\* boolean
C25_NoFieldBackToNull ==
    [][\A a \in ArticleIds :
          /\ articles[a].summary.set => articles'[a].summary.set
          /\ articles[a].relevance_score.set => articles'[a].relevance_score.set
          /\ articles[a].present =>
                (articles'[a].present /\ articles'[a].developer_focus.val \in BOOLEAN)]_vars

\* an invocation committed its upsert over a row that an earlier invocation,
\* which returned normally, had filled
C25_Witness ==
    LET c == cur["analyzer"]
    IN /\ c.committed /\ c.inv >= 2
       /\ \E a \in ArticleIds :
            /\ stream["raw_articles"][c.msg].id = a
            /\ articles[a].relevance_score = [set |-> TRUE, by |-> c.inv]
            /\ lastOk[a] \in 1 .. (c.inv - 1)

\* C26: on shutdown a component closes its bus connections only once its worker
\* task has ended, and the worker performs no bus operation after the close
C26_WorkerStoppedBeforeClose ==
    /\ life.closed => life.task = "done"
    /\ life.late = 0

\* C27: a call made in CLOSED leaves the breaker OPEN exactly when the wrapped
\* function has then failed failure_threshold times since its last success; a
\* call made in OPEN before recovery_timeout has elapsed since the last failure
\* fails without invoking the function and leaves the breaker OPEN
C27_OpensAtThresholdAndRejects ==
    LET l == cb.last
    IN /\ cb.state = "CLOSED" => cb.streak < cb.failure_threshold
       /\ (l.made /\ l.pre = "CLOSED")
            => (cb.state = "OPEN" <=> cb.streak = cb.failure_threshold)
       /\ (l.made /\ l.pre = "OPEN" /\ ~l.elapsed)
            => (~l.invoked /\ l.result = "raise_open" /\ cb.state = "OPEN")

\* a breaker with a threshold above one has opened and rejects a call
C27_Witness ==
    /\ cb.failure_threshold >= 2
    /\ cb.last.made /\ cb.last.pre = "OPEN" /\ ~cb.last.elapsed
    /\ ~cb.last.invoked

\* C28: a call made in OPEN once recovery_timeout has elapsed since the last
\* failure invokes the function in HALF_OPEN; when it succeeds the breaker is
\* CLOSED with failure_count 0, when it fails with the expected exception the
\* breaker is OPEN
C28_HalfOpenProbe ==
    LET l == cb.last
    IN (l.made /\ l.pre = "OPEN" /\ l.elapsed)
          => /\ l.invoked /\ l.via = "HALF_OPEN"
             /\ l.outcome = "ok" => (cb.state = "CLOSED" /\ cb.failure_count = 0)
             /\ l.outcome = "expected" => cb.state = "OPEN"

\* the probe call succeeded and closed the breaker
C28_Witness ==
    /\ cb.last.made /\ cb.last.pre = "OPEN" /\ cb.last.elapsed
    /\ cb.last.outcome = "ok" /\ cb.state = "CLOSED"

\* C29: a wrapped function that succeeds is not called again and its result is
\* returned; RetryError is raised only when every one of the max_retries + 1
\* attempts failed with a retryable exception; a non-retryable exception ends
\* the call at once
C29_RetryOutcomes ==
    /\ rt.oks > 0 => (rt.oks = 1 /\ rt.done = "return")
    /\ rt.done = "return" => (rt.oks = 1 /\ rt.calls = rt.fails + 1)
    /\ rt.done = "RetryError"
         => (rt.oks = 0 /\ rt.fatals = 0
             /\ rt.fails = config_max_retries(rt.arg) + 1 /\ rt.calls = rt.fails)
    /\ (rt.fails > 0 /\ rt.fails <= config_max_retries(rt.arg))
         => rt.done # "RetryError"
    /\ rt.fatals > 0 => (rt.fatals = 1 /\ rt.done = "reraise")

\* the function succeeded at its last allowed attempt, after retryable failures
C29_Witness ==
    /\ rt.done = "return"
    /\ rt.fails = config_max_retries(rt.arg) /\ rt.fails >= 2

RECURSIVE WellFormedOnly(_)
\* the entries of a feed whose link is a well-formed URL, in feed order
WellFormedOnly(entries) ==
    IF entries = <<>> THEN <<>>
    ELSE (IF Head(entries).link = "wellformed"
            THEN <<[url |-> "wellformed"]>> ELSE <<>>)
         \o WellFormedOnly(Tail(entries))

\* C31: parse_feed returns one Article per entry with a well-formed link and
\* none for an entry with a malformed link
C31_MalformedLinksSkipped ==
    feed.parsed => feed.out = WellFormedOnly(feed.entries)

\* the handler of message m raised in the steady-state loop and the worker has
\* logged the error
RaisedInLoop(m) ==
    LET c == cur["analyzer"]
    IN c.msg = m /\ c.ctx = "loop" /\ c.step = "done"
       /\ c.failed \notin {"none", "killed"}

\* a handler invocation on message m is in progress
Handling(m) == cur["analyzer"].msg = m /\ cur["analyzer"].step # "done"

\* C32: a raw_articles message whose handler raised in the steady-state loop
\* is handed to the handler again by the same running worker.
C32_RaisedIsHandledAgain ==
    \A m \in 1 .. MaxMsgs : RaisedInLoop(m) ~> Handling(m)

\* C33: in every worker a group-read call that is not the first one of the
\* run starts only when a sleep of the worker has ended since the previous one.
C33_SleepBetweenReads ==
    [][(evloop'.reads = evloop.reads + 1 /\ evloop.reads >= 1)
          => evloop.wpc = "ready"]_vars

\* C34: the Analyzer worker reaches its read loop on every start: its
\* coroutine never ends in the start-up phase, whatever the pending set holds.
C34_StartReachesLoop == wk["analyzer"].pc # "dead"

\* every raw_articles message has been delivered to the Analyzer, its handler
\* invocation has returned and nothing is left unacked
AnalyzerDrained ==
    /\ wk["analyzer"].pc = "loop"
    /\ cur["analyzer"].step = "done"
    /\ grp["analyzer"].exists
    /\ Len(stream["raw_articles"]) >= 1
    /\ Drained("analyzer")

\* C35: a GET /analyzer/status answered on a reachable bus while the Analyzer
\* has drained raw_articles answers is_idle=true.
C35_DrainedAnswersIdle ==
    [][(AnalyzerDrained /\ resp' # resp /\ resp'.endpoint = "analyzer" /\ resp'.busOk)
          => (resp'.code = 200 /\ resp'.is_idle)]_vars

C37_SerialisedNonNull ==
    \A k \in 1 .. Len(ser.encoded) :
        ser.encoded[k].kind \in {"bytes", "str", "int", "float"}

\* C38: the Publisher makes a create-page call only in a handling whose marker
\* lookup was answered by the bus and found the marker absent.
C38_PageOnlyAfterAnsweredLookup ==
    LET c == cur["notion"]
    IN (c.calls > 0 \/ c.posted) => (c.lookup = "ok" /\ ~c.hadMarker)

\* C39: once a Composer handler invocation or a POST /compose has ended, with
\* a return or with an error, the Digest row it inserted has a digest_stream
\* message carrying its id.
C39_EveryDigestAnnounced ==
    \A k \in {"composer", "http"} :
        (cur[k].step = "done" /\ cur[k].failed # "killed" /\ cur[k].committed)
            => \E i \in 1 .. Len(stream["digest_stream"]) :
                   stream["digest_stream"][i].id = cur[k].did

\* C40: when POST /compose was answered 204, the Scheduler takes the compose
\* step as done: it does not POST again and is at the Publisher drain wait.
C40_NoContentIsSuccess ==
    sched.got = "no_content" => (sched.step = "notion" /\ sched.composeOk)

====
